---- MODULE Spec2Model ----
(***************************************************************************)
(* Model of the IPC scraper: the row builder, hierarchy walker and country *)
(* aggregator of src/src/hdx/scraper/ipc/ipc.py and the harmonized export  *)
(* (admin classification and duplicate resolution) of ipc_hapi.py.         *)
(*                                                                         *)
(* Encoding of Python values                                               *)
(*   None            <<>>                                                  *)
(*   any other value <<v>>  (Some(v))                                      *)
(*   dict            function from the keys present to such values         *)
(*   ordered dict    sequence of <<key, value>> pairs (rows of a CSV)      *)
(*   datetime        the integer yyyymmdd (order preserving)               *)
(*   "Mon YYYY"      <<"Mon", YYYY>>; "Mon YYYY - Mon YYYY" is the four    *)
(*                   tokens <<"Mon", YYYY, "Mon", YYYY>>, "" is <<>>       *)
(*   "YYYY-MM-DD"    <<YYYY, MM, DD>>                                      *)
(*   "a|b" strings   the list of their "|"-separated fields, "" is <<"">>  *)
(*   float ratios    integer hundredths (1.0 is 100)                       *)
(***************************************************************************)
EXTENDS Integers, Sequences, FiniteSets, TLC

VARIABLES
    _state,        \* IPC._state: iso3 / DEFAULT / START_DATE / END_DATE -> datetime
    _output,       \* IPC._output: the global bundle
    output,        \* what the last get_country_data call returned
    visited,       \* countries the per-country loop of this run has processed
    ncalls,        \* number of get_country_data calls made so far
    last_call,     \* the last get_country_data call: its inputs and the state before it
    run_log,       \* the (iso3, country_data) pairs processed in this run, in order
    initial_window,\* the start_date/end_date the bundle of this run was constructed with
    hapi,          \* HAPIOutput.process_data: rows before and after duplicate resolution
    builder,       \* a stand-alone call of add_country_subnational_rows
    trial,         \* a stand-alone call of one other function: its input and result
    main           \* the per-country loop of main with the datasets it produces

vars == <<_state, _output, output, visited, ncalls, last_call, run_log,
          initial_window, hapi, builder, trial, main>>

-----------------------------------------------------------------------------
(* Python values *)

None == <<>>
Some(v) == <<v>>
Val(x) == x[1]

\* dict.get(key): None when the key is absent
Get(d, key) == IF key \in DOMAIN d THEN d[key] ELSE None

\* truth value of an optional token string (period): None and "" are falsy
TruthyTokens(x) == x # None /\ Len(Val(x)) > 0

\* truth value of an optional name: None and "" are falsy
TruthyName(x) == x # None /\ Val(x) # ""

\* truth value of an optional list: None and [] are falsy
TruthyList(x) == x # None /\ Len(Val(x)) > 0

\* d[key] = value on an ordered dict: replaces in place or appends the key
SetKey(row, key, value) ==
    IF \E i \in 1..Len(row) : row[i][1] = key
    THEN [i \in 1..Len(row) |-> IF row[i][1] = key THEN <<key, value>> ELSE row[i]]
    ELSE Append(row, <<key, value>>)

HasKey(row, key) == \E i \in 1..Len(row) : row[i][1] = key

\* row[key] of an ordered dict that holds the key
RowVal(row, key) == row[CHOOSE i \in 1..Len(row) : row[i][1] = key][2]

\* row.get(key, default)
RowGet(row, key, default) == IF HasKey(row, key) THEN RowVal(row, key) ELSE default

\* list(row.keys())
Keys(row) == [i \in 1..Len(row) |-> row[i][1]]

-----------------------------------------------------------------------------
(* Dates *)

default_date == 19000101
default_enddate == 99991231

MonthNames == <<"Jan", "Feb", "Mar", "Apr", "May", "Jun",
                "Jul", "Aug", "Sep", "Oct", "Nov", "Dec">>

MonthNum(tok) == CHOOSE m \in 1..12 : MonthNames[m] = tok

YearOf(d) == d \div 10000
MonthOf(d) == (d \div 100) % 100
DayOf(d) == d % 100
MkDate(y, m, d) == y * 10000 + m * 100 + d

IsLeap(y) == (y % 4 = 0 /\ y % 100 # 0) \/ y % 400 = 0

\* a calendar without leap years
DaysInMonth_NoLeap(y, m) ==
    IF m = 2 THEN 28
    ELSE IF m \in {4, 6, 9, 11} THEN 30 ELSE 31

DaysInMonth(y, m) ==
    IF m = 2 THEN (IF IsLeap(y) THEN 29 ELSE 28)
    ELSE IF m \in {4, 6, 9, 11} THEN 30 ELSE 31

\* datetime + relativedelta(months=1): the day is clipped to the target month
PlusOneMonth(d) ==
    LET y == IF MonthOf(d) = 12 THEN YearOf(d) + 1 ELSE YearOf(d)
        m == IF MonthOf(d) = 12 THEN 1 ELSE MonthOf(d) + 1
        dd == IF DayOf(d) > DaysInMonth(y, m) THEN DaysInMonth(y, m) ELSE DayOf(d)
    IN  MkDate(y, m, dd)

\* datetime + relativedelta(days=-1)
MinusOneDay(d) ==
    IF DayOf(d) > 1 THEN d - 1
    ELSE IF MonthOf(d) > 1
         THEN MkDate(YearOf(d), MonthOf(d) - 1, DaysInMonth(YearOf(d), MonthOf(d) - 1))
         ELSE MkDate(YearOf(d) - 1, 12, 31)

\* datetime.strptime(datestring, "%b %Y").replace(tzinfo=utc)
parse_date(datestring) == MkDate(datestring[2], MonthNum(datestring[1]), 1)

\* date.isoformat()
isoformat(d) == <<YearOf(d), MonthOf(d), DayOf(d)>>

\* IPC.parse_date_range: the two ISO strings and the widened time_period
parse_date_range(date_range, time_period) ==
    LET start == SubSeq(date_range, 1, 2)
        end == SubSeq(date_range, 3, 4)
        startdate == parse_date(start)
        enddate == MinusOneDay(PlusOneMonth(parse_date(end)))
    IN  [startdatestr |-> isoformat(startdate),
         enddatestr |-> isoformat(enddate),
         time_period |->
            [start_date |-> IF startdate < time_period.start_date
                            THEN startdate ELSE time_period.start_date,
             end_date |-> IF enddate > time_period.end_date
                          THEN enddate ELSE time_period.end_date]]

-----------------------------------------------------------------------------
(* IPC.__init__: the fixed tables of the row builder *)

_projection_names == <<"Current", "First projection", "Second projection">>
_projection_suffixes == <<"", "_projected", "_second_projected">>
_projections == <<"current", "projected", "second_projected">>

\* the (prefix, phase) items of the dict, in insertion order
_phasemapping == << <<"estimated", "all">>, <<"p3plus", "3+">>, <<"phase1", "1">>,
                    <<"phase2", "2">>, <<"phase3", "3">>, <<"phase4", "4">>,
                    <<"phase5", "5">> >>

\* str.lower() on the projection names
Lower(name) ==
    CASE name = "Current" -> "current"
      [] name = "First projection" -> "first projection"
      [] name = "Second projection" -> "second projection"

\* the float 1.0, in hundredths
One == 100

\* d[key] = value on a plain dict
SetDict(d, key, value) ==
    [k \in DOMAIN d \cup {key} |-> IF k = key THEN value ELSE d[k]]

-----------------------------------------------------------------------------
(* IPC.add_country_subnational_rows *)

\* a run of d[key] = value statements on an ordered dict, in order: a key keeps
\* the position of its first assignment and the value of its last (when every
\* assignment is to a new key this is the row with the assignments appended)
Assign(row, assignments) ==
    LET all == row \o assignments
    IN  IF Cardinality({all[n][1] : n \in 1..Len(all)}) = Len(all)
        THEN all
        ELSE LET firsts == SelectSeq([n \in 1..Len(all) |-> n],
                               LAMBDA n : \A m \in 1..(n - 1) : all[m][1] # all[n][1])
             IN  [p \in 1..Len(firsts) |->
                    LET key == all[firsts[p]][1]
                        last == CHOOSE m \in 1..Len(all) :
                                    /\ all[m][1] = key
                                    /\ \A m2 \in (m + 1)..Len(all) : all[m2][1] # key
                    IN  <<key, all[last][2]>>]

\* the population key of a phase in a location
PopulationKey(prefix, phase, projection_suffix) ==
    IF phase = "3+"
    THEN "p3plus" \o projection_suffix
    ELSE prefix \o "_population" \o projection_suffix

\* the wide column that holds the number of a phase
NumberColumn(phase, projection_name_l) ==
    IF phase = "all"
    THEN "Population analyzed " \o projection_name_l
    ELSE "Phase " \o phase \o " number " \o projection_name_l

PercentageColumn(phase, projection_name_l) ==
    "Phase " \o phase \o " percentage " \o projection_name_l

\* the period of the location itself when it has one, else that of the analysis
PeriodDate_OwnFirst(location, analysis, projection) ==
    IF TruthyTokens(Get(location, projection \o "_period_dates"))
    THEN Get(location, projection \o "_period_dates")
    ELSE Get(analysis, projection \o "_period_dates")

\* the period string of a projection: read from the analysis argument
PeriodDate(location, analysis, projection) ==
    Get(analysis, projection \o "_period_dates")

\* the value written to location["estimated_percentage{suffix}"]
EstimatedPercentage_FromInput(location, projection_suffix) ==
    Get(location, "estimated_percentage" \o projection_suffix)

EstimatedPercentage(location, projection_suffix) == Some(One)

\* location.get(key) as the phase loop of projection i reads it: the synthesized
\* percentage of the "all" phase has been written for the projections up to i
LocationGet(location, i, key) ==
    IF \E n \in 1..i : key = "estimated_percentage" \o _projection_suffixes[n]
    THEN EstimatedPercentage(location,
             _projection_suffixes[CHOOSE n \in 1..i :
                 key = "estimated_percentage" \o _projection_suffixes[n]])
    ELSE Get(location, key)

\* time_period after the projections 1..i of one call have been parsed
RECURSIVE TimePeriodAfter(_, _, _, _)
TimePeriodAfter(time_period, location, analysis, i) ==
    IF i = 0 THEN time_period
    ELSE LET before == TimePeriodAfter(time_period, location, analysis, i - 1)
             period_date == PeriodDate(location, analysis, _projections[i])
         IN  IF TruthyTokens(period_date)
             THEN parse_date_range(Val(period_date), before).time_period
             ELSE before

\* period_start and period_end of projection i
PeriodStart(time_period, location, analysis, i) ==
    LET period_date == PeriodDate(location, analysis, _projections[i])
    IN  IF TruthyTokens(period_date)
        THEN Some(parse_date_range(Val(period_date),
                      TimePeriodAfter(time_period, location, analysis, i - 1)).startdatestr)
        ELSE None

PeriodEnd(time_period, location, analysis, i) ==
    LET period_date == PeriodDate(location, analysis, _projections[i])
    IN  IF TruthyTokens(period_date)
        THEN Some(parse_date_range(Val(period_date),
                      TimePeriodAfter(time_period, location, analysis, i - 1)).enddatestr)
        ELSE None

\* affected and percentage of phase j in projection i
Affected(location, i, j) ==
    LocationGet(location, i,
        PopulationKey(_phasemapping[j][1], _phasemapping[j][2], _projection_suffixes[i]))

Percentage(location, i, j) ==
    LocationGet(location, i,
        _phasemapping[j][1] \o "_percentage" \o _projection_suffixes[i])

\* the long row of phase j in projection i
LongRow(base_row, time_period, location, analysis, i, j) ==
    Assign(base_row,
           << <<"Validity period", Some(Lower(_projection_names[i]))>>,
              <<"From", PeriodStart(time_period, location, analysis, i)>>,
              <<"To", PeriodEnd(time_period, location, analysis, i)>>,
              <<"Phase", Some(_phasemapping[j][2])>>,
              <<"Number", Affected(location, i, j)>>,
              <<"Percentage", Percentage(location, i, j)>> >>)

\* a builder that keeps the long row whenever the population is there
EmitLongRow_NoPeriodTest(affected, period_date) ==
    affected # None

\* the condition under which the long row of a (projection, phase) is kept
EmitLongRow(affected, period_date) ==
    affected # None /\ TruthyTokens(period_date)

\* the row_wide[...] = ... statements of phase j in projection i
\* number and percentage columns written only when they hold a value
WidePhaseAssignments_Populated(location, i, j) ==
    (IF Affected(location, i, j) # None
     THEN << <<NumberColumn(_phasemapping[j][2], Lower(_projection_names[i])),
               Affected(location, i, j)>> >>
     ELSE <<>>)
    \o (IF _phasemapping[j][1] # "estimated" /\ Percentage(location, i, j) # None
        THEN << <<PercentageColumn(_phasemapping[j][2], Lower(_projection_names[i])),
                  Percentage(location, i, j)>> >>
        ELSE <<>>)

WidePhaseAssignments(location, i, j) ==
    LET phase == _phasemapping[j][2]
        projection_name_l == Lower(_projection_names[i])
        number == <<NumberColumn(phase, projection_name_l), Affected(location, i, j)>>
    IN  IF _phasemapping[j][1] # "estimated"
        THEN <<number, <<PercentageColumn(phase, projection_name_l),
                         Percentage(location, i, j)>> >>
        ELSE <<number>>

\* the row_wide[...] = ... statements of projection i, in order
WideAssignments(time_period, location, analysis, i) ==
    << <<_projection_names[i] \o " from", PeriodStart(time_period, location, analysis, i)>>,
       <<_projection_names[i] \o " to", PeriodEnd(time_period, location, analysis, i)>> >>
    \o WidePhaseAssignments(location, i, 1) \o WidePhaseAssignments(location, i, 2)
    \o WidePhaseAssignments(location, i, 3) \o WidePhaseAssignments(location, i, 4)
    \o WidePhaseAssignments(location, i, 5) \o WidePhaseAssignments(location, i, 6)
    \o WidePhaseAssignments(location, i, 7)

\* the (projection, phase) passes of the two nested loops, in order
Passes ==
    [n \in 1..(Len(_projections) * Len(_phasemapping)) |->
        <<((n - 1) \div Len(_phasemapping)) + 1, ((n - 1) % Len(_phasemapping)) + 1>>]

\* the long rows a call appends
LongRowsAppended(base_row, time_period, location, analysis) ==
    LET kept == SelectSeq(Passes,
                    LAMBDA p : EmitLongRow(Affected(location, p[1], p[2]),
                                   PeriodDate(location, analysis, _projections[p[1]])))
    IN  [n \in 1..Len(kept) |->
            LongRow(base_row, time_period, location, analysis, kept[n][1], kept[n][2])]

\* a wide row appended only when some projection has a period
WideRowsAppended_WhenPeriod(row_wide) ==
    IF \E i \in 1..Len(_projection_names) :
            RowVal(row_wide, _projection_names[i] \o " from") # None
    THEN <<row_wide>>
    ELSE <<>>

\* the wide rows a call appends
WideRowsAppended(row_wide) == <<row_wide>>

\* returns the extended rows and rows_wide and the widened time_period;
\* analysis is None when the location is the analysis itself
add_country_subnational_rows(base_row, time_period, location, rows, rows_wide, analysis) ==
    LET analysis_1 == IF analysis = None THEN location ELSE Val(analysis)
        row_wide == Assign(base_row,
                        WideAssignments(time_period, location, analysis_1, 1)
                        \o WideAssignments(time_period, location, analysis_1, 2)
                        \o WideAssignments(time_period, location, analysis_1, 3))
    IN  [rows |-> rows \o LongRowsAppended(base_row, time_period, location, analysis_1),
         rows_wide |-> rows_wide \o WideRowsAppended(row_wide),
         time_period |-> TimePeriodAfter(time_period, location, analysis_1,
                                         Len(_projections))]

-----------------------------------------------------------------------------
(* IPC.get_base_row, IPC.add_country_rows, IPC.add_subnational_rows *)

get_base_row(analysis, countryiso3) ==
    << <<"Date of analysis", analysis["analysis_date"]>>,
       <<"Country", Some(countryiso3)>>,
       <<"Total country population", Get(analysis, "population")>> >>

add_country_rows(analysis, countryiso3, time_period, rows, rows_wide) ==
    add_country_subnational_rows(get_base_row(analysis, countryiso3), time_period,
                                 analysis, rows, rows_wide, None)

\* the row of an area under adm_row
\* an area row that gets no "Level 1" key when its parent row has none
AreaRow_WithoutLevel1(adm_row, area) == SetKey(adm_row, "Area", area["name"])

AreaRow(adm_row, area) ==
    SetKey(IF ~HasKey(adm_row, "Level 1") THEN SetKey(adm_row, "Level 1", None)
           ELSE adm_row,
           "Area", area["name"])

\* acc with the area lists and the time period a builder call returned
AreaBuilt(acc, built) ==
    [acc EXCEPT !.time_period = built.time_period,
                !.area_rows = built.rows,
                !.area_rows_wide = built.rows_wide]

\* one pass of the loop over adm["areas"]; acc is
\* [time_period, group_rows, group_rows_wide, area_rows, area_rows_wide, logged]
AreaStep(acc, adm_row, area, analysis) ==
    AreaBuilt(acc, add_country_subnational_rows(AreaRow(adm_row, area), acc.time_period,
                                                area, acc.area_rows, acc.area_rows_wide,
                                                Some(analysis)))

RECURSIVE AreaLoop(_, _, _, _, _)
AreaLoop(acc, adm_row, areas, analysis, k) ==
    IF k > Len(areas) THEN acc
    ELSE AreaLoop(AreaStep(acc, adm_row, areas[k], analysis),
                  adm_row, areas, analysis, k + 1)

\* the nested function of add_subnational_rows: a None "areas" is logged, as
\* (countryiso3, title of the analysis), and skipped
process_areas(acc, adm_row, adm, analysis) ==
    IF adm["areas"] = None
    THEN [acc EXCEPT !.logged = Append(@, <<Val(RowVal(adm_row, "Country")),
                                            Val(analysis["title"])>>)]
    ELSE AreaLoop(acc, adm_row, Val(adm["areas"]), analysis, 1)

\* acc with the group lists and the time period a builder call returned
GroupBuilt(acc, built) ==
    [acc EXCEPT !.time_period = built.time_period,
                !.group_rows = built.rows,
                !.group_rows_wide = built.rows_wide]

\* the areas of a group, when the group has the key
GroupAreas(acc, group_row, group, analysis) ==
    IF "areas" \in DOMAIN group
    THEN process_areas(acc, group_row, group, analysis)
    ELSE acc

\* one pass of the loop over analysis["groups"]
GroupStep(acc, base_row, group, analysis) ==
    GroupAreas(GroupBuilt(acc, add_country_subnational_rows(
                                   SetKey(base_row, "Level 1", group["name"]),
                                   acc.time_period, group, acc.group_rows,
                                   acc.group_rows_wide, Some(analysis))),
               SetKey(base_row, "Level 1", group["name"]), group, analysis)

RECURSIVE GroupLoop_StopsAtNone(_, _, _, _, _)
\* a loop over the groups that ends at the first group whose "areas" is None
GroupLoop_StopsAtNone(acc, base_row, groups, analysis, k) ==
    IF k > Len(groups) THEN acc
    ELSE IF "areas" \in DOMAIN groups[k] /\ groups[k]["areas"] = None
         THEN GroupStep(acc, base_row, groups[k], analysis)
         ELSE GroupLoop_StopsAtNone(GroupStep(acc, base_row, groups[k], analysis),
                                    base_row, groups, analysis, k + 1)

RECURSIVE GroupLoop(_, _, _, _, _)
GroupLoop(acc, base_row, groups, analysis, k) ==
    IF k > Len(groups) THEN acc
    ELSE GroupLoop(GroupStep(acc, base_row, groups[k], analysis),
                   base_row, groups, analysis, k + 1)

add_subnational_rows(analysis, countryiso3, acc) ==
    IF TruthyList(Get(analysis, "groups"))
    THEN GroupLoop(acc, get_base_row(analysis, countryiso3), Val(analysis["groups"]),
                   analysis, 1)
    ELSE process_areas(acc, get_base_row(analysis, countryiso3), analysis, analysis)

\* the seven lists after both calls on one analysis
Walked(country, sub) ==
    [time_period |-> sub.time_period,
     country_rows |-> country.rows,
     country_rows_wide |-> country.rows_wide,
     group_rows |-> sub.group_rows,
     group_rows_wide |-> sub.group_rows_wide,
     area_rows |-> sub.area_rows,
     area_rows_wide |-> sub.area_rows_wide,
     logged |-> sub.logged]

\* add_subnational_rows after add_country_rows returned country
WalkSubnational(sets, analysis, countryiso3, country) ==
    Walked(country,
           add_subnational_rows(analysis, countryiso3,
               [time_period |-> country.time_period,
                group_rows |-> sets.group_rows,
                group_rows_wide |-> sets.group_rows_wide,
                area_rows |-> sets.area_rows,
                area_rows_wide |-> sets.area_rows_wide,
                logged |-> sets.logged]))

\* add_country_rows followed by add_subnational_rows on one analysis; sets is
\* [time_period, country_rows, country_rows_wide, group_rows, group_rows_wide,
\*  area_rows, area_rows_wide, logged]
WalkAnalysis(sets, analysis, countryiso3) ==
    WalkSubnational(sets, analysis, countryiso3,
                    add_country_rows(analysis, countryiso3, sets.time_period,
                                     sets.country_rows, sets.country_rows_wide))

\* an all-history loop that walks the oldest analysis only
WalkHistory_OldestOnly(sets, country_data, countryiso3, k) ==
    IF Len(country_data) = 0 THEN sets
    ELSE WalkAnalysis(sets, country_data[Len(country_data)], countryiso3)

RECURSIVE WalkHistory(_, _, _, _)
WalkHistory(sets, country_data, countryiso3, k) ==
    IF k > Len(country_data) THEN sets
    ELSE WalkHistory(WalkAnalysis(sets, country_data[k], countryiso3),
                     country_data, countryiso3, k + 1)

EmptySets(time_period) ==
    [time_period |-> time_period,
     country_rows |-> <<>>, country_rows_wide |-> <<>>,
     group_rows |-> <<>>, group_rows_wide |-> <<>>,
     area_rows |-> <<>>, area_rows_wide |-> <<>>,
     logged |-> <<>>]

-----------------------------------------------------------------------------
(* IPC.__init__ (the global bundle) and IPC.get_country_data *)

\* state.get(key, default)
StateGet(st, key, default) == IF key \in DOMAIN st THEN st[key] ELSE default

\* self._output as __init__ builds it from the state handed in
NewOutput(st) ==
    [country_rows_latest |-> <<>>, country_rows_wide_latest |-> <<>>,
     group_rows_latest |-> <<>>, group_rows_wide_latest |-> <<>>,
     area_rows_latest |-> <<>>, area_rows_wide_latest |-> <<>>,
     country_rows |-> <<>>, country_rows_wide |-> <<>>,
     group_rows |-> <<>>, group_rows_wide |-> <<>>,
     area_rows |-> <<>>, area_rows_wide |-> <<>>,
     start_date |-> StateGet(st, "START_DATE", default_enddate),
     end_date |-> StateGet(st, "END_DATE", default_date)]

\* an update test against the larger of the stored watermark and DEFAULT
IsUpdate_LargerOfBoth(analysis_date, st, countryiso3) ==
    LET watermark == StateGet(st, countryiso3, st["DEFAULT"])
    IN  ~(analysis_date <= (IF watermark > st["DEFAULT"] THEN watermark ELSE st["DEFAULT"]))

\* the update test: the newest date against the stored watermark, or against
\* DEFAULT when the country has none
IsUpdate(analysis_date, st, countryiso3) ==
    ~(analysis_date <= StateGet(st, countryiso3, st["DEFAULT"]))

\* a watermark that only advances when the call is an update
NewWatermark_OnlyOnUpdate(st, countryiso3, analysis_date) ==
    IF analysis_date <= StateGet(st, countryiso3, st["DEFAULT"])
    THEN st
    ELSE [k \in DOMAIN st \cup {countryiso3} |->
            IF k = countryiso3 THEN analysis_date ELSE st[k]]

\* the watermark written after the update test
NewWatermark(st, countryiso3, analysis_date) ==
    SetDict(st, countryiso3, analysis_date)

\* index of the first analysis with a truthy current_period_dates, 0 when none
\* the newest record taken as the latest one whatever its current period
MostRecentCurrent_Newest(country_data) == IF Len(country_data) > 0 THEN 1 ELSE 0

MostRecentCurrent(country_data) ==
    IF \E k \in 1..Len(country_data) :
            TruthyTokens(country_data[k]["current_period_dates"])
    THEN CHOOSE k \in 1..Len(country_data) :
            /\ TruthyTokens(country_data[k]["current_period_dates"])
            /\ \A l \in 1..(k - 1) :
                    ~TruthyTokens(country_data[l]["current_period_dates"])
    ELSE 0

\* the path download_file returns for the geojson of an analysis
GeojsonPath(countryiso3, analysis) ==
    Some(<<countryiso3, Val(analysis["id"]), YearOf(parse_date(Val(analysis["analysis_date"])))>>)

\* a call that leaves the "_latest" tables of the global bundle alone
ExtendLatest_Skipped(bundle, latest) == bundle

\* the six "_latest" extends of the global bundle
ExtendLatest(bundle, latest) ==
    [bundle EXCEPT
        !.country_rows_latest = @ \o latest.country_rows,
        !.country_rows_wide_latest = @ \o latest.country_rows_wide,
        !.group_rows_latest = @ \o latest.group_rows,
        !.group_rows_wide_latest = @ \o latest.group_rows_wide,
        !.area_rows_latest = @ \o latest.area_rows,
        !.area_rows_wide_latest = @ \o latest.area_rows_wide]

\* all-history tables that are assigned instead of extended
ExtendAll_Replacing(bundle, all) ==
    [bundle EXCEPT
        !.country_rows = all.country_rows,
        !.country_rows_wide = all.country_rows_wide,
        !.group_rows = all.group_rows,
        !.group_rows_wide = all.group_rows_wide,
        !.area_rows = all.area_rows,
        !.area_rows_wide = all.area_rows_wide]

\* the six all-history extends of the global bundle
ExtendAll(bundle, all) ==
    [bundle EXCEPT
        !.country_rows = @ \o all.country_rows,
        !.country_rows_wide = @ \o all.country_rows_wide,
        !.group_rows = @ \o all.group_rows,
        !.group_rows_wide = @ \o all.group_rows_wide,
        !.area_rows = @ \o all.area_rows,
        !.area_rows_wide = @ \o all.area_rows_wide]

\* a start_date that is overwritten by every call
WidenStart_Overwrite(bundle, st, start_date) ==
    [bundle |-> [bundle EXCEPT !.start_date = start_date],
     state |-> [k \in DOMAIN st \cup {"START_DATE"} |->
                    IF k = "START_DATE" THEN start_date ELSE st[k]]]

\* an end_date comparison the wrong way round
WidenEnd_Reversed(bundle, st, end_date) ==
    IF end_date < bundle.end_date
    THEN [bundle |-> [bundle EXCEPT !.end_date = end_date],
          state |-> [k \in DOMAIN st \cup {"END_DATE"} |->
                        IF k = "END_DATE" THEN end_date ELSE st[k]]]
    ELSE [bundle |-> bundle, state |-> st]

\* an end_date that is widened in the bundle only
WidenEnd_BundleOnly(bundle, st, end_date) ==
    IF end_date > bundle.end_date
    THEN [bundle |-> [bundle EXCEPT !.end_date = end_date], state |-> st]
    ELSE [bundle |-> bundle, state |-> st]

\* the widening of the global window and of the state's START_DATE / END_DATE
WidenStart(bundle, st, start_date) ==
    IF start_date < bundle.start_date
    THEN [bundle |-> [bundle EXCEPT !.start_date = start_date],
          state |-> SetDict(st, "START_DATE", start_date)]
    ELSE [bundle |-> bundle, state |-> st]

WidenEnd(bundle, st, end_date) ==
    IF end_date > bundle.end_date
    THEN [bundle |-> [bundle EXCEPT !.end_date = end_date],
          state |-> SetDict(st, "END_DATE", end_date)]
    ELSE [bundle |-> bundle, state |-> st]

\* what the call returns once the update flag is known
Returned(update, out) == IF ~update THEN None ELSE Some(out)

\* time_period as the call creates it
NewTimePeriod == [start_date |-> default_enddate, end_date |-> default_date]

\* the rows of the most recent analysis with a current period
LatestRows(countryiso3, country_data, current) ==
    IF current # 0
    THEN WalkAnalysis(EmptySets(NewTimePeriod), country_data[current], countryiso3)
    ELSE EmptySets(NewTimePeriod)

\* output after the block on the most recent current analysis
OutputLatest(countryiso3, country_data, current, latest) ==
    IF current # 0
    THEN [k \in {"countryiso3", "geojson", "country_rows_latest",
                 "country_rows_wide_latest", "group_rows_latest",
                 "group_rows_wide_latest", "area_rows_latest",
                 "area_rows_wide_latest"} |->
            CASE k = "countryiso3" -> Some(countryiso3)
              [] k = "geojson" -> GeojsonPath(countryiso3, country_data[current])
              [] k = "country_rows_latest" -> latest.country_rows
              [] k = "country_rows_wide_latest" -> latest.country_rows_wide
              [] k = "group_rows_latest" -> latest.group_rows
              [] k = "group_rows_wide_latest" -> latest.group_rows_wide
              [] k = "area_rows_latest" -> latest.area_rows
              [] k = "area_rows_wide_latest" -> latest.area_rows_wide]
    ELSE [k \in {"countryiso3", "geojson"} |->
            IF k = "countryiso3" THEN Some(countryiso3) ELSE None]

\* output with the all-history lists and the window of the country
Output(out_latest, all) ==
    [k \in DOMAIN out_latest \cup
           {"country_rows", "country_rows_wide", "group_rows",
            "group_rows_wide", "area_rows", "area_rows_wide",
            "start_date", "end_date"} |->
        CASE k = "country_rows" -> all.country_rows
          [] k = "country_rows_wide" -> all.country_rows_wide
          [] k = "group_rows" -> all.group_rows
          [] k = "group_rows_wide" -> all.group_rows_wide
          [] k = "area_rows" -> all.area_rows
          [] k = "area_rows_wide" -> all.area_rows_wide
          [] k = "start_date" -> all.time_period.start_date
          [] k = "end_date" -> all.time_period.end_date
          [] OTHER -> out_latest[k]]

\* the end of the call
Finish(ret, widened) == [ret |-> ret, state |-> widened.state, bundle |-> widened.bundle]

\* the end_date test after the start_date test
WidenEndAfter(widened_start, end_date) ==
    WidenEnd(widened_start.bundle, widened_start.state, end_date)

\* the call from the all-history loop on: out_latest and bundle_1 are the output
\* and the bundle the block on the most recent current analysis left
AllHistory(countryiso3, country_data, st, analysis_date, out_latest, bundle_1, all) ==
    Finish(Returned(IsUpdate(analysis_date, st, countryiso3), Output(out_latest, all)),
           WidenEndAfter(WidenStart(ExtendAll(bundle_1, all),
                                    NewWatermark(st, countryiso3, analysis_date),
                                    all.time_period.start_date),
                         all.time_period.end_date))

\* the call from the block on the most recent current analysis on
LatestAnalysis(countryiso3, country_data, st, bundle, current, latest) ==
    AllHistory(countryiso3, country_data, st,
               parse_date(Val(country_data[1]["analysis_date"])),
               OutputLatest(countryiso3, country_data, current, latest),
               IF current # 0 THEN ExtendLatest(bundle, latest) ELSE bundle,
               WalkHistory(EmptySets(latest.time_period), country_data, countryiso3, 1))

\* a call that sets the watermark of a country without history to the cutoff
get_country_data_StampingEmpty(countryiso3, country_data, st, bundle) ==
    IF Len(country_data) = 0
    THEN [ret |-> None, state |-> SetDict(st, countryiso3, st["DEFAULT"]),
          bundle |-> bundle]
    ELSE LatestAnalysis(countryiso3, country_data, st, bundle,
                        MostRecentCurrent(country_data),
                        LatestRows(countryiso3, country_data,
                                   MostRecentCurrent(country_data)))

\* the call on a fetched history: [ret, state, bundle]
get_country_data(countryiso3, country_data, st, bundle) ==
    IF Len(country_data) = 0
    THEN [ret |-> None, state |-> st, bundle |-> bundle]
    ELSE LatestAnalysis(countryiso3, country_data, st, bundle,
                        MostRecentCurrent(country_data),
                        LatestRows(countryiso3, country_data,
                                   MostRecentCurrent(country_data)))

-----------------------------------------------------------------------------
(* The feed: the analyses the source can return, and the persisted state *)

MaxHist == 3      \* longest history the source returns for a country
MaxCalls == 2     \* get_country_data calls explored, over all runs

\* get_countries: the countries of the source, sorted
get_countries == <<"AFG", "ETH">>

Countries == {get_countries[n] : n \in 1..Len(get_countries)}

\* the position of a country in the sorted list
Position(countryiso3) == CHOOSE n \in 1..Len(get_countries) : get_countries[n] = countryiso3

\* state["DEFAULT"], the cutoff the persisted state is created with
DefaultCutoff == 20210201

AreaAlpha ==
    [k \in {"name", "estimated_population", "phase4_population", "phase4_percentage"} |->
        CASE k = "name" -> Some("Alpha")
          [] k = "estimated_population" -> Some(40)
          [] k = "phase4_population" -> Some(4)
          [] k = "phase4_percentage" -> Some(10)]

AreaBeta ==
    [k \in {"name", "estimated_population", "estimated_percentage",
            "estimated_population_projected"} |->
        CASE k = "name" -> Some("Beta")
          [] k = "estimated_population" -> Some(30)
          [] k = "estimated_percentage" -> Some(55)
          [] k = "estimated_population_projected" -> Some(35)]

\* a history-less country: areas directly under the analysis
X1 ==
    [k \in {"analysis_date", "id", "title", "population", "current_period_dates",
            "estimated_population", "p3plus", "p3plus_percentage", "areas"} |->
        CASE k = "analysis_date" -> Some(<<"Jan", 2016>>)
          [] k = "id" -> Some(1)
          [] k = "title" -> Some("X1")
          [] k = "population" -> Some(1000)
          [] k = "current_period_dates" -> Some(<<"Jan", 2016, "Mar", 2016>>)
          [] k = "estimated_population" -> Some(400)
          [] k = "p3plus" -> Some(100)
          [] k = "p3plus_percentage" -> Some(25)
          [] k = "areas" -> Some(<<AreaAlpha>>)]

GroupNorthX2 ==
    [k \in {"name", "estimated_population", "estimated_population_projected", "areas"} |->
        CASE k = "name" -> Some("North")
          [] k = "estimated_population" -> Some(70)
          [] k = "estimated_population_projected" -> Some(70)
          [] k = "areas" -> None]

X2 ==
    [k \in {"analysis_date", "id", "title", "current_period_dates",
            "projected_period_dates", "second_projected_period_dates",
            "estimated_population", "estimated_population_projected",
            "phase3_population", "phase3_percentage", "groups"} |->
        CASE k = "analysis_date" -> Some(<<"Jan", 2021>>)
          [] k = "id" -> Some(2)
          [] k = "title" -> Some("X2")
          [] k = "current_period_dates" -> Some(<<"Mar", 2021, "May", 2021>>)
          [] k = "projected_period_dates" -> Some(<<"Jun", 2021, "Feb", 2024>>)
          [] k = "second_projected_period_dates" -> None
          [] k = "estimated_population" -> Some(200)
          [] k = "estimated_population_projected" -> Some(300)
          [] k = "phase3_population" -> Some(30)
          [] k = "phase3_percentage" -> Some(15)
          [] k = "groups" -> Some(<<GroupNorthX2>>)]

GroupNorthX3 ==
    [k \in {"name", "estimated_population", "estimated_population_projected",
            "current_period_dates", "areas"} |->
        CASE k = "name" -> Some("North")
          [] k = "estimated_population" -> Some(60)
          [] k = "estimated_population_projected" -> Some(60)
          [] k = "current_period_dates" -> Some(<<"Apr", 2021, "May", 2021>>)
          [] k = "areas" -> Some(<<AreaBeta>>)]

X3 ==
    [k \in {"analysis_date", "id", "title", "population", "current_period_dates",
            "projected_period_dates", "second_projected_period_dates",
            "estimated_population", "estimated_percentage",
            "estimated_population_projected",
            "phase4_population", "phase4_percentage", "groups"} |->
        CASE k = "analysis_date" -> Some(<<"Mar", 2021>>)
          [] k = "id" -> Some(3)
          [] k = "title" -> Some("X3")
          [] k = "population" -> Some(2000)
          [] k = "current_period_dates" -> Some(<<"Mar", 2021, "May", 2021>>)
          [] k = "projected_period_dates" -> Some(<<"Jun", 2021, "Feb", 2024>>)
          [] k = "second_projected_period_dates" -> Some(<<>>)
          [] k = "estimated_population" -> Some(100)
          [] k = "estimated_percentage" -> Some(50)
          [] k = "estimated_population_projected" -> Some(90)
          [] k = "phase4_population" -> Some(10)
          [] k = "phase4_percentage" -> Some(10)
          [] k = "groups" -> Some(<<GroupNorthX3>>)]

GroupNorthX4 ==
    [k \in {"name", "estimated_population_projected"} |->
        CASE k = "name" -> Some("North")
          [] k = "estimated_population_projected" -> Some(60)]

\* a group without any analyzed population
GroupSouthX4 ==
    [k \in {"name", "phase4_population_projected", "phase4_percentage_projected"} |->
        CASE k = "name" -> Some("South")
          [] k = "phase4_population_projected" -> Some(5)
          [] k = "phase4_percentage_projected" -> Some(20)]

\* the newest analysis has numbers for the current projection but no current period
X4 ==
    [k \in {"analysis_date", "id", "title", "current_period_dates",
            "projected_period_dates", "estimated_population",
            "estimated_population_projected", "phase4_population", "groups"} |->
        CASE k = "analysis_date" -> Some(<<"Mar", 2021>>)
          [] k = "id" -> Some(4)
          [] k = "title" -> Some("X4")
          [] k = "current_period_dates" -> Some(<<>>)
          [] k = "projected_period_dates" -> Some(<<"Jun", 2021, "Feb", 2024>>)
          [] k = "estimated_population" -> Some(120)
          [] k = "estimated_population_projected" -> Some(150)
          [] k = "phase4_population" -> Some(12)
          [] k = "groups" -> Some(<<GroupNorthX4, GroupSouthX4>>)]

Analyses == <<X1, X2, X3, X4>>

AnalysisDate(a) == parse_date(Val(Analyses[a]["analysis_date"]))

\* the histories the source can return: no analysis twice, newest first
Histories ==
    { h \in UNION { [1..n -> 1..Len(Analyses)] : n \in 0..MaxHist } :
        /\ \A i, j \in 1..Len(h) : i # j => h[i] # h[j]
        /\ \A i \in 1..(Len(h) - 1) : AnalysisDate(h[i]) >= AnalysisDate(h[i + 1]) }

\* the decoded JSON of a history
Feed(h) == [i \in 1..Len(h) |-> Analyses[h[i]]]

-----------------------------------------------------------------------------
(* HAPIOutput.process_data: collaborators and configuration *)

\* the characters of the names that occur in the feed (TLA+ strings are atomic)
Chars(name) ==
    CASE name = "" -> <<>>
      [] name = "AFG" -> <<"A", "F", "G">>
      [] name = "ETH" -> <<"E", "T", "H">>
      [] name = "North" -> <<"N", "o", "r", "t", "h">>
      [] name = "South" -> <<"S", "o", "u", "t", "h">>
      [] name = "Alpha" -> <<"A", "l", "p", "h", "a">>
      [] name = "Beta" -> <<"B", "e", "t", "a">>
      [] name = "None" -> <<"N", "o", "n", "e">>

\* str.lower() on one character
LowerChar(c) ==
    CASE c = "A" -> "a" [] c = "B" -> "b" [] c = "E" -> "e" [] c = "F" -> "f"
      [] c = "G" -> "g" [] c = "H" -> "h" [] c = "N" -> "n" [] c = "S" -> "s"
      [] c = "T" -> "t" [] OTHER -> c

LowerChars(cs) == [n \in 1..Len(cs) |-> LowerChar(cs[n])]

\* x in s on strings
Contains(cs, x) ==
    \E n \in 0..(Len(cs) - Len(x)) : SubSeq(cs, n + 1, n + Len(x)) = x

\* str(name) inside an f-string: None prints as "None"
Printed(name) == IF name = None THEN "None" ELSE Val(name)

\* configuration["hapi_adm_matching"]
adm1_only == {}
adm2_only == {}
adm2_only_include_adm1 == {}
adm2_in_level1 == {"ETH"}
adm1_in_area == {}
\* (patterns as the configuration spells them: one in lower case, one capitalised)
adm_ignore_patterns == {<<"s", "o", "u", "t", "h">>, <<"A", "l", "p", "h", "a">>}

\* Country.get_hrp_status_from_iso3 and Country.get_gho_status_from_iso3
HrpCountries == {"AFG", "ETH"}
GhoCountries == {"AFG"}

\* the p-code the matcher finds for a name at an admin level, "" when it finds none
Pcode(countryiso3, level, name) ==
    CASE name = "North" /\ level = 1 -> countryiso3 \o "01"
      [] name = "North" /\ level = 2 -> countryiso3 \o "0101"
      [] name = "Beta" /\ level = 2 -> countryiso3 \o "0102"
      [] OTHER -> ""

\* complete_admins: codes, official names and warnings for the names to match
complete_admins(countryiso3, match_adm_names) ==
    LET name(l) == IF TruthyName(match_adm_names[l]) THEN Val(match_adm_names[l]) ELSE ""
        code(l) == IF name(l) = "" THEN "" ELSE Pcode(countryiso3, l, name(l))
    IN  [adm_codes |-> <<code(1), code(2)>>,
         adm_names |-> <<IF code(1) = "" THEN "" ELSE name(1),
                         IF code(2) = "" THEN "" ELSE name(2)>>,
         warnings |-> (IF name(1) # "" /\ code(1) = ""
                       THEN <<"PCode unknown admin1">> ELSE <<>>)
                      \o (IF name(2) # "" /\ code(2) = ""
                          THEN <<"PCode unknown admin2">> ELSE <<>>)]

\* A joined string is the sequence of its pieces, "|" among them; "" is <<>>.
\* "|".join(list)
Join(list) ==
    SelectSeq([m \in 1..(IF list = <<>> THEN 0 ELSE 2 * Len(list) - 1) |->
                  IF m % 2 = 1 THEN list[(m + 1) \div 2] ELSE "|"],
              LAMBDA piece : piece # "")

\* string.split("|"): the fields between the separators, [""] for ""
RECURSIVE SplitFrom(_, _, _)
SplitFrom(string, n, field) ==
    IF n > Len(string) THEN <<field>>
    ELSE IF string[n] = "|" THEN <<field>> \o SplitFrom(string, n + 1, "")
    ELSE SplitFrom(string, n + 1, field \o string[n])

Split(string) == SplitFrom(string, 1, "")

\* hdx parse_date_range(row["Date of analysis"])[0]: the first day of the month
DateOfAnalysis(datestring) == MkDate(datestring[2], MonthNum(datestring[1]), 1)

\* hdx parse_date on an ISO string
hdx_parse_date(string) == MkDate(string[1], string[2], string[3])

\* iso_string_from_datetime
iso_string_from_datetime(d) == <<YearOf(d), MonthOf(d), DayOf(d)>>

-----------------------------------------------------------------------------
(* HAPIOutput.process_data: admin names of one source row *)

\* the test against adm_ignore_patterns
IgnoredName(countryiso3, match_adm_names) ==
    LET full_adm_name == Chars(countryiso3) \o <<"|">> \o Chars(Printed(match_adm_names[1]))
                         \o <<"|">> \o Chars(Printed(match_adm_names[2]))
    IN  \E x \in adm_ignore_patterns : Contains(LowerChars(full_adm_name), x)

\* a Level 1 name kept in the admin 1 slot
Level1AsAdmin2_InFirstSlot(level1_name) ==
    [row_admin_level |-> 2, warnings |-> <<>>,
     provider_adm_names |-> <<level1_name, Some("")>>,
     match_adm_names |-> <<level1_name, Some("")>>]

\* the adm2_in_level1 branch: Level 1 holds the admin 2 unit, Area is ignored
Level1AsAdmin2(level1_name) ==
    [row_admin_level |-> 2, warnings |-> <<>>,
     provider_adm_names |-> <<Some(""), level1_name>>,
     match_adm_names |-> <<Some(""), level1_name>>]

\* the default branch on a blank Level 1 name, warning on every table
BlankLevel1_AlwaysWarning(admin_level, area_name) ==
    [row_admin_level |-> 1,
     warnings |-> <<"Blank Level 1 name">>
                  \o (IF ~TruthyName(area_name) THEN <<"Blank Area name">> ELSE <<>>),
     provider_adm_names |-> <<area_name, Some("")>>,
     match_adm_names |-> <<area_name, Some("")>>]

\* the default branch on a blank Level 1 name: the Area is the admin 1 unit
BlankLevel1(admin_level, area_name) ==
    [row_admin_level |-> 1,
     warnings |-> (IF admin_level = 1 THEN <<"Blank Level 1 name">> ELSE <<>>)
                  \o (IF ~TruthyName(area_name) THEN <<"Blank Area name">> ELSE <<>>),
     provider_adm_names |-> <<area_name, Some("")>>,
     match_adm_names |-> <<area_name, Some("")>>]

\* the branch on the exception lists:
\* [row_admin_level, warnings, provider_adm_names, match_adm_names]
ClassifyNames(countryiso3, admin_level, level1_name, area_name) ==
    IF countryiso3 \in adm1_only THEN
        IF admin_level = 2
        THEN [row_admin_level |-> admin_level,
              warnings |-> <<"Admin level not present in CODs">>,
              provider_adm_names |-> <<level1_name, area_name>>,
              match_adm_names |-> <<Some(""), Some("")>>]
        ELSE [row_admin_level |-> admin_level, warnings |-> <<>>,
              provider_adm_names |-> <<level1_name, Some("")>>,
              match_adm_names |-> <<level1_name, Some("")>>]
    ELSE IF countryiso3 \in adm2_only THEN
        IF admin_level = 1
        THEN [row_admin_level |-> admin_level,
              warnings |-> <<"Admin level not present in CODs">>,
              provider_adm_names |-> <<level1_name, Some("")>>,
              match_adm_names |-> <<Some(""), Some("")>>]
        ELSE [row_admin_level |-> admin_level, warnings |-> <<>>,
              provider_adm_names |-> <<level1_name, area_name>>,
              match_adm_names |-> <<Some(""), area_name>>]
    ELSE IF countryiso3 \in adm2_only_include_adm1 THEN
        [row_admin_level |-> admin_level, warnings |-> <<>>,
         provider_adm_names |-> <<level1_name, area_name>>,
         match_adm_names |-> <<level1_name, area_name>>]
    ELSE IF countryiso3 \in adm2_in_level1 THEN Level1AsAdmin2(level1_name)
    ELSE IF countryiso3 \in adm1_in_area THEN
        IF admin_level = 1
        THEN [row_admin_level |-> admin_level,
              warnings |-> <<"Non-matching admin one unit">>,
              provider_adm_names |-> <<level1_name, area_name>>,
              match_adm_names |-> <<Some(""), Some("")>>]
        ELSE [row_admin_level |-> 1, warnings |-> <<>>,
              provider_adm_names |-> <<area_name, Some("")>>,
              match_adm_names |-> <<area_name, Some("")>>]
    ELSE
        IF ~TruthyName(level1_name)
        THEN BlankLevel1(admin_level, area_name)
        ELSE [row_admin_level |-> IF ~TruthyName(area_name) THEN 1 ELSE admin_level,
              warnings |-> <<>>,
              provider_adm_names |-> <<level1_name, area_name>>,
              match_adm_names |-> <<level1_name, area_name>>]

\* admin names and codes of one row of a table of the given admin_level
RowAdmins(row, admin_level) ==
    LET countryiso3 == Val(RowVal(row, "Country"))
    IN  IF admin_level > 0
        THEN LET classified == ClassifyNames(countryiso3, admin_level,
                                   RowGet(row, "Level 1", Some("")),
                                   RowGet(row, "Area", Some("")))
                 ignored == IgnoredName(countryiso3, classified.match_adm_names)
                 match_adm_names == IF ignored THEN <<Some(""), Some("")>>
                                    ELSE classified.match_adm_names
                 completed == complete_admins(countryiso3, match_adm_names)
             IN  [row_admin_level |-> classified.row_admin_level,
                  warnings |-> classified.warnings
                               \o (IF ignored THEN <<"Cannot match row">> ELSE <<>>)
                               \o completed.warnings,
                  adm_codes |-> completed.adm_codes,
                  adm_names |-> completed.adm_names,
                  provider_adm_names |-> classified.provider_adm_names]
        ELSE [row_admin_level |-> admin_level, warnings |-> <<>>,
              adm_codes |-> <<"", "">>, adm_names |-> <<"", "">>,
              provider_adm_names |-> <<Some(""), Some("")>>]

-----------------------------------------------------------------------------
(* HAPIOutput.process_data: the harmonized rows *)

\* the keys of self._output, in insertion order, as their "_"-separated words
DataTypes ==
    << <<"country", "rows", "latest">>, <<"country", "rows", "wide", "latest">>,
       <<"group", "rows", "latest">>, <<"group", "rows", "wide", "latest">>,
       <<"area", "rows", "latest">>, <<"area", "rows", "wide", "latest">>,
       <<"country", "rows">>, <<"country", "rows", "wide">>,
       <<"group", "rows">>, <<"group", "rows", "wide">>,
       <<"area", "rows">>, <<"area", "rows", "wide">>,
       <<"start", "date">>, <<"end", "date">> >>

HasWord(data_type, word) == \E n \in 1..Len(data_type) : data_type[n] = word

\* the key of self._output a data type names
DataTypeKey(data_type) ==
    CASE data_type = <<"country", "rows", "latest">> -> "country_rows_latest"
      [] data_type = <<"country", "rows", "wide", "latest">> -> "country_rows_wide_latest"
      [] data_type = <<"group", "rows", "latest">> -> "group_rows_latest"
      [] data_type = <<"group", "rows", "wide", "latest">> -> "group_rows_wide_latest"
      [] data_type = <<"area", "rows", "latest">> -> "area_rows_latest"
      [] data_type = <<"area", "rows", "wide", "latest">> -> "area_rows_wide_latest"
      [] data_type = <<"country", "rows">> -> "country_rows"
      [] data_type = <<"country", "rows", "wide">> -> "country_rows_wide"
      [] data_type = <<"group", "rows">> -> "group_rows"
      [] data_type = <<"group", "rows", "wide">> -> "group_rows_wide"
      [] data_type = <<"area", "rows">> -> "area_rows"
      [] data_type = <<"area", "rows", "wide">> -> "area_rows_wide"
      [] data_type = <<"start", "date">> -> "start_date"
      [] data_type = <<"end", "date">> -> "end_date"

\* the tables the loop over self.global_data.items() does not skip
SelectedDataTypes ==
    SelectSeq(DataTypes,
              LAMBDA data_type : ~(\/ ~HasWord(data_type, "wide")
                                   \/ HasWord(data_type, "latest")
                                   \/ HasWord(data_type, "date")))

AdminLevelOf(data_type) ==
    IF HasWord(data_type, "country") THEN 0
    ELSE IF HasWord(data_type, "group") THEN 1
    ELSE 2

ResourceName(data_type) ==
    IF HasWord(data_type, "country") THEN "ipc_global_national_wide.csv"
    ELSE IF HasWord(data_type, "group") THEN "ipc_global_level1_wide.csv"
    ELSE "ipc_global_area_wide.csv"

\* the rows of one selected table with the admin level and resource of the table
TableRows(global_data, data_type) ==
    LET rows == global_data[DataTypeKey(data_type)]
    IN  [n \in 1..Len(rows) |->
            [row |-> rows[n], admin_level |-> AdminLevelOf(data_type),
             resource_name |-> ResourceName(data_type), table_index |-> n]]

\* every source row the two outer loops visit, in order
RECURSIVE SourceRowsFrom(_, _)
SourceRowsFrom(global_data, t) ==
    IF t > Len(SelectedDataTypes) THEN <<>>
    ELSE TableRows(global_data, SelectedDataTypes[t]) \o SourceRowsFrom(global_data, t + 1)

SourceRows(global_data) == SourceRowsFrom(global_data, 1)

ProjectionLabels == <<"Current", "First projection", "Second projection">>

Phases == <<"all", "3+", "1", "2", "3", "4", "5">>

PopulationAnalyzed(row, projection) ==
    RowVal(row, "Population analyzed " \o Lower(projection))

\* the (source row, projection) passes that are not skipped: analysis_id counts them
\* a projection loop that also skips the rows whose admin names were not resolved
AnalysisPasses_ResolvedOnly(sources) ==
    SelectSeq([m \in 1..(Len(sources) * Len(ProjectionLabels)) |->
                  <<((m - 1) \div Len(ProjectionLabels)) + 1,
                    ((m - 1) % Len(ProjectionLabels)) + 1>>],
              LAMBDA pass :
                  /\ PopulationAnalyzed(sources[pass[1]].row,
                                        ProjectionLabels[pass[2]]) # None
                  /\ RowAdmins(sources[pass[1]].row,
                               sources[pass[1]].admin_level).warnings = <<>>)

AnalysisPasses(sources) ==
    SelectSeq([m \in 1..(Len(sources) * Len(ProjectionLabels)) |->
                  <<((m - 1) \div Len(ProjectionLabels)) + 1,
                    ((m - 1) % Len(ProjectionLabels)) + 1>>],
              LAMBDA pass : PopulationAnalyzed(sources[pass[1]].row,
                                               ProjectionLabels[pass[2]]) # None)

\* what one pass of the projection loop computes before the phase loop
AnalysisRecord(source, projection, analysis_id) ==
    LET row == source.row
        admins == RowAdmins(row, source.admin_level)
        from == RowVal(row, projection \o " from")
        time_period_start == IF from = None THEN None
                             ELSE Some(iso_string_from_datetime(hdx_parse_date(Val(from))))
        time_period_end == IF from = None THEN None
                           ELSE Some(iso_string_from_datetime(
                                    hdx_parse_date(Val(RowVal(row, projection \o " to")))))
    IN  [analysis_id |-> analysis_id,
         row |-> row,
         projection |-> projection,
         countryiso3 |-> Val(RowVal(row, "Country")),
         admins |-> admins,
         population_analyzed |-> Val(PopulationAnalyzed(row, projection)),
         date_of_analysis |-> DateOfAnalysis(Val(RowVal(row, "Date of analysis"))),
         time_period_start |-> time_period_start,
         time_period_end |-> time_period_end,
         errors |-> IF from = None THEN <<"No time period provided">> ELSE <<>>,
         resource_name |-> source.resource_name,
         source_admin_level |-> source.admin_level,
         table_index |-> source.table_index]

AnalysisRecords(global_data) ==
    LET sources == SourceRows(global_data)
        passes == AnalysisPasses(sources)
    IN  [n \in 1..Len(passes) |->
            AnalysisRecord(sources[passes[n][1]], ProjectionLabels[passes[n][2]], n)] \o <<>>

PopulationInPhase(record, phase) ==
    IF phase = "all" THEN Some(record.population_analyzed)
    ELSE RowVal(record.row, "Phase " \o phase \o " number " \o Lower(record.projection))

PopulationFractionInPhase(record, phase) ==
    IF phase = "all" THEN Some(One)
    ELSE RowVal(record.row, "Phase " \o phase \o " percentage " \o Lower(record.projection))

hapi_row(record, phase) ==
    [location_code |-> record.countryiso3,
     has_hrp |-> IF record.countryiso3 \in HrpCountries THEN "Y" ELSE "N",
     in_gho |-> IF record.countryiso3 \in GhoCountries THEN "Y" ELSE "N",
     provider_admin1_name |-> record.admins.provider_adm_names[1],
     provider_admin2_name |-> record.admins.provider_adm_names[2],
     admin1_code |-> record.admins.adm_codes[1],
     admin1_name |-> record.admins.adm_names[1],
     admin2_code |-> record.admins.adm_codes[2],
     admin2_name |-> record.admins.adm_names[2],
     admin_level |-> record.admins.row_admin_level,
     ipc_phase |-> phase,
     ipc_type |-> Lower(record.projection),
     population_in_phase |-> Val(PopulationInPhase(record, phase)),
     population_fraction_in_phase |-> PopulationFractionInPhase(record, phase),
     reference_period_start |-> record.time_period_start,
     reference_period_end |-> record.time_period_end,
     dataset_hdx_id |-> "global-acute-food-insecurity-country-data",
     resource_hdx_id |-> record.resource_name,
     warning |-> Join(record.admins.warnings),
     error |-> Join(record.errors),
     date_of_analysis |-> iso_string_from_datetime(record.date_of_analysis),
     analysis_id |-> record.analysis_id]

\* hapi_rows as the loops leave it, before the duplicates are marked
BuiltRows(records) ==
    LET passes == SelectSeq([m \in 1..(Len(records) * Len(Phases)) |->
                                <<((m - 1) \div Len(Phases)) + 1,
                                  ((m - 1) % Len(Phases)) + 1>>],
                            LAMBDA pass : PopulationInPhase(records[pass[1]],
                                                            Phases[pass[2]]) # None)
    IN  [n \in 1..Len(passes) |-> hapi_row(records[passes[n][1]], Phases[passes[n][2]])]

-----------------------------------------------------------------------------
(* HAPIOutput.process_data: duplicates *)

primary_key(record) ==
    <<record.countryiso3, record.admins.adm_codes[1], record.admins.adm_codes[2],
      record.admins.provider_adm_names[1], record.admins.provider_adm_names[2],
      Lower(record.projection), record.time_period_start>>

\* the records that are added to duplicate_check: those with a time period
Keyed(records) == SelectSeq(records, LAMBDA record : record.time_period_start # None)

\* duplicate_check: primary key -> list of (analysis_id, population_analyzed, date_of_analysis)
DuplicateCheck(records) ==
    LET keyed == Keyed(records)
    IN  [key \in {primary_key(keyed[n]) : n \in 1..Len(keyed)} |->
            LET members == SelectSeq(keyed, LAMBDA record : primary_key(record) = key)
            IN  [n \in 1..Len(members) |->
                    <<members[n].analysis_id, members[n].population_analyzed,
                      members[n].date_of_analysis>>]]

SeqMax(values) == CHOOSE v \in {values[n] : n \in 1..Len(values)} :
                      \A n \in 1..Len(values) : values[n] <= v

\* the earliest date of analysis of the group
LatestDate_Earliest(values) ==
    CHOOSE v \in {values[n][3] : n \in 1..Len(values)} :
        \A n \in 1..Len(values) : v <= values[n][3]

LatestDate(values) == SeqMax([n \in 1..Len(values) |-> values[n][3]])

HighestPopulation(populations) == SeqMax(populations)

\* a tie that is left unmarked
TiedExcluded_None(analysis_ids_same_population) == {}

\* the tied rows that are marked "Duplicate row excluded"
TiedExcluded(analysis_ids_same_population) ==
    {analysis_ids_same_population[n] : n \in 2..Len(analysis_ids_same_population)}

\* the entries one pass of the loop over duplicate_check adds to duplicates
\* (analysis ids are unique, so no other pass adds an id of these values)
GroupDuplicates(values) ==
    IF Len(values) = 1 THEN <<>>
    ELSE
    LET latest_date == LatestDate(values)
        earlier == {values[n][1] : n \in {m \in 1..Len(values) : values[m][3] # latest_date}}
        left == SelectSeq(values, LAMBDA value : value[1] \notin earlier)
        populations == [n \in 1..Len(left) |-> left[n][2]]
        highest_population == HighestPopulation(populations)
        lower == IF Len(left) = 1 THEN {}
                 ELSE {values[n][1] : n \in {m \in 1..Len(values) :
                            /\ values[m][2] # highest_population
                            /\ values[m][1] \notin earlier}}
        population_count == Cardinality({n \in 1..Len(populations) :
                                            populations[n] = highest_population})
        same == SelectSeq(values, LAMBDA value : /\ value[2] = highest_population
                                                 /\ value[1] \notin earlier \cup lower)
        tied == IF Len(left) > 1 /\ population_count > 1
                THEN TiedExcluded([n \in 1..Len(same) |-> same[n][1]])
                ELSE {}
    IN  [analysis_id \in earlier \cup lower \cup tied |->
            IF analysis_id \in tied THEN "Duplicate row excluded"
            ELSE IF analysis_id \in lower
                 THEN "Duplicate row with lower population analyzed excluded"
                 ELSE "Duplicate row with earlier date of analysis excluded"]

\* the duplicates dict after the loop over duplicate_check
Duplicates(duplicate_check) ==
    LET marked == UNION {DOMAIN GroupDuplicates(duplicate_check[key]) :
                            key \in DOMAIN duplicate_check}
    IN  [analysis_id \in marked |->
            LET key == CHOOSE k \in DOMAIN duplicate_check :
                            analysis_id \in DOMAIN GroupDuplicates(duplicate_check[k])
            IN  GroupDuplicates(duplicate_check[key])[analysis_id]]

\* the error field of a row with a duplicate error
WithDuplicateError(error, duplicate_error) ==
    LET errors == IF Split(error) = <<"">> THEN <<>> ELSE Split(error)
    IN  Join(Append(errors, duplicate_error))

\* a last loop that deletes the rows with a duplicate error
MarkDuplicates_Deleting(hapi_rows, duplicates) ==
    SelectSeq(hapi_rows, LAMBDA row : row.analysis_id \notin DOMAIN duplicates)

\* the last loop over hapi_rows
MarkDuplicates(hapi_rows, duplicates) ==
    [n \in 1..Len(hapi_rows) |->
        IF hapi_rows[n].analysis_id \in DOMAIN duplicates
        THEN [hapi_rows[n] EXCEPT
                !.error = WithDuplicateError(@, duplicates[hapi_rows[n].analysis_id])]
        ELSE hapi_rows[n]]

\* for every row of hapi_rows, the table and the index of the wide row it was built from
BuiltOrigins(records, built) ==
    [n \in 1..Len(built) |->
        LET record == records[built[n].analysis_id]
        IN  <<record.resource_name, record.table_index>>]

\* [built, rows, origin]: hapi_rows before and after the duplicates are marked
process_data(global_data) ==
    LET records == AnalysisRecords(global_data)
        built == BuiltRows(records) \o <<>>
        duplicates == Duplicates(DuplicateCheck(records))
    IN  [built |-> built, rows |-> MarkDuplicates(built, duplicates),
         origin |-> BuiltOrigins(records, built)]

-----------------------------------------------------------------------------
(* The run: construction, the per-country calls, a later run *)

NoCall == [iso3 |-> "", feed |-> <<>>, state |-> <<>>, bundle |-> <<>>]
NoHapi == [done |-> FALSE, built |-> <<>>, rows |-> <<>>, origin |-> <<>>]
NoBuilder == [pc |-> "idle"]
NoTrial == [pc |-> "idle"]
NoMain == [pc |-> "idle"]

Init ==
    /\ _state = [k \in {"DEFAULT"} |-> DefaultCutoff]
    /\ _output = NewOutput([k \in {"DEFAULT"} |-> DefaultCutoff])
    /\ output = None
    /\ visited = {}
    /\ ncalls = 0
    /\ last_call = NoCall
    /\ run_log = <<>>
    /\ initial_window = [start_date |-> default_enddate, end_date |-> default_date]
    /\ hapi = NoHapi
    /\ builder = NoBuilder
    /\ trial = NoTrial
    /\ main = NoMain

\* main: output = ipc.get_country_data(countryiso) for a later country of the
\* sorted list
GetCountryData(countryiso3, h) ==
    /\ ncalls < MaxCalls
    /\ \A done \in visited : Position(done) < Position(countryiso3)
    /\ ~hapi.done
    /\ \E result \in {get_country_data(countryiso3, Feed(h), _state, _output)} :
           /\ _state' = result.state
           /\ _output' = result.bundle
           /\ output' = result.ret
           /\ run_log' = Append(run_log, [iso3 |-> countryiso3, feed |-> h,
                                          updated |-> result.ret # None])
    /\ visited' = visited \cup {countryiso3}
    /\ ncalls' = ncalls + 1
    /\ last_call' = [iso3 |-> countryiso3, feed |-> h, state |-> _state,
                     bundle |-> _output]
    /\ UNCHANGED <<initial_window, hapi, builder, trial, main>>

\* a later run: IPC is constructed again on the state the run before left
NewRun ==
    /\ ncalls < MaxCalls
    /\ visited # {}
    /\ _output' = NewOutput(_state)
    /\ initial_window' = [start_date |-> StateGet(_state, "START_DATE", default_enddate),
                          end_date |-> StateGet(_state, "END_DATE", default_date)]
    /\ output' = None
    /\ visited' = {}
    /\ last_call' = NoCall
    /\ run_log' = <<>>
    /\ hapi' = NoHapi
    /\ UNCHANGED <<_state, ncalls, builder, trial, main>>

\* HAPIOutput(..., ipc.get_all_data()).process_data(), when a country was updated
ProcessData ==
    /\ \E n \in 1..Len(run_log) : run_log[n].updated
    /\ ~hapi.done
    /\ \E result \in {process_data(_output)} :
           hapi' = [done |-> TRUE, built |-> result.built, rows |-> result.rows,
                    origin |-> result.origin]
    /\ UNCHANGED <<_state, _output, output, visited, ncalls, last_call, run_log,
                   initial_window, builder, trial, main>>

Next ==
    \/ \E countryiso3 \in Countries, h \in Histories : GetCountryData(countryiso3, h)
    \/ NewRun
    \/ ProcessData

Spec == Init /\ [][Next]_vars

-----------------------------------------------------------------------------
(* The row builder on its own: one location, called up to MaxBuilds times *)

MaxBuilds == 2    \* calls of the row builder on the same lists

\* the dict with the given (key, value) items
Dict(items) == [k \in {item[1] : item \in items} |->
                    (CHOOSE item \in items : item[1] = k)[2]]

\* the marker of a key that is left out of a dict
Absent == <<0, 0>>

\* an optional item of a dict
Item(key, value) == IF value = Absent THEN {} ELSE {<<key, value>>}

BuilderLocations ==
    { Dict({<<"name", Some("Alpha")>>}
           \cup Item("estimated_population", estimated)
           \cup Item("estimated_percentage", percentage)
           \cup Item("phase4_population", phase4)
           \cup Item("phase4_percentage", IF phase4 = Absent THEN Absent ELSE Some(10))
           \cup Item("estimated_population_projected", projected)
           \cup Item("p3plus_projected", p3plus)
           \cup Item("p3plus_percentage_projected",
                     IF p3plus = Absent THEN Absent ELSE Some(15))) :
        estimated \in {Absent, None, Some(0), Some(500)},
        percentage \in {Absent, Some(37)},
        phase4 \in {Absent, Some(50)},
        projected \in {Absent, Some(600)},
        p3plus \in {Absent, Some(60)} }

\* the period fields a dict can carry
BuilderPeriods ==
    { Dict(Item("current_period_dates", current)
           \cup Item("projected_period_dates", projected)) :
        current \in {Absent, None, Some(<<>>), Some(<<"May", 2023, "Oct", 2023>>)},
        projected \in {Absent, Some(<<"Nov", 2023, "Feb", 2024>>)} }

\* the own period of a group or area, when it has one
OwnPeriods ==
    { Dict(Item("current_period_dates", current)) :
        current \in {Absent, Some(<<"Jan", 2023, "Mar", 2023>>)} }

Merge(d, e) == [k \in DOMAIN d \cup DOMAIN e |-> IF k \in DOMAIN e THEN e[k] ELSE d[k]]

BuilderBaseRow ==
    << <<"Date of analysis", Some(<<"Apr", 2023>>)>>, <<"Country", Some("AFG")>>,
       <<"Total country population", Some(1000)>> >>

\* the calls: a country row (the location is the analysis) or a group row
\* (the periods are on the analysis handed in)
BuilderCalls ==
    { [location |-> Merge(l, p), analysis |-> None, base_row |-> BuilderBaseRow] :
        l \in BuilderLocations, p \in BuilderPeriods }
    \cup
    { [location |-> Merge(l, own), analysis |-> Some(p),
       base_row |-> Append(BuilderBaseRow, <<"Level 1", Some("Alpha")>>)] :
        l \in BuilderLocations, p \in BuilderPeriods, own \in OwnPeriods }

InitBuilder ==
    /\ _state = [k \in {"DEFAULT"} |-> DefaultCutoff]
    /\ _output = NewOutput([k \in {"DEFAULT"} |-> DefaultCutoff])
    /\ output = None
    /\ visited = {}
    /\ ncalls = 0
    /\ last_call = NoCall
    /\ run_log = <<>>
    /\ initial_window = [start_date |-> default_enddate, end_date |-> default_date]
    /\ hapi = NoHapi
    /\ trial = NoTrial
    /\ main = NoMain
    /\ \E call \in BuilderCalls :
          builder = [pc |-> "called", builds |-> 0, call |-> call,
                     rows |-> <<>>, rows_wide |-> <<>>,
                     rows_before |-> <<>>, rows_wide_before |-> <<>>,
                     time_period |-> [start_date |-> default_enddate,
                                      end_date |-> default_date]]

\* self.add_country_subnational_rows(base_row, time_period, location, rows, rows_wide, analysis)
BuildRows ==
    /\ builder.pc = "called"
    /\ builder.builds < MaxBuilds
    /\ \E built \in {add_country_subnational_rows(builder.call.base_row,
                        builder.time_period, builder.call.location,
                        builder.rows, builder.rows_wide, builder.call.analysis)} :
          builder' = [builder EXCEPT !.builds = @ + 1,
                                     !.rows = built.rows,
                                     !.rows_wide = built.rows_wide,
                                     !.rows_before = builder.rows,
                                     !.rows_wide_before = builder.rows_wide,
                                     !.time_period = built.time_period]
    /\ UNCHANGED <<_state, _output, output, visited, ncalls, last_call, run_log,
                   initial_window, hapi, trial, main>>

NextBuilder == BuildRows

SpecBuilder == InitBuilder /\ [][NextBuilder]_vars

-----------------------------------------------------------------------------
(* Properties of the row builder *)

\* the long rows the last call of the builder appended
BuilderAppended ==
    SubSeq(builder.rows, Len(builder.rows_before) + 1, Len(builder.rows))

\* the dict the periods of the last call are read from
BuilderAnalysis ==
    IF builder.call.analysis = None THEN builder.call.location
    ELSE Val(builder.call.analysis)

BuilderCalled == builder.pc = "called" /\ builder.builds > 0

\* the population of phase j in projection i, as the location handed in carries it
InputPopulation(i, j) ==
    Get(builder.call.location,
        IF _phasemapping[j][2] = "3+"
        THEN "p3plus" \o _projection_suffixes[i]
        ELSE _phasemapping[j][1] \o "_population" \o _projection_suffixes[i])

\* projection i has a non-empty period string
InputHasPeriod(i) ==
    LET period == Get(BuilderAnalysis, _projections[i] \o "_period_dates")
    IN  period # None /\ period # Some(<<>>)

\* the appended long rows of phase j in projection i
AppendedFor(i, j) ==
    { n \in 1..Len(BuilderAppended) :
        /\ RowVal(BuilderAppended[n], "Validity period") = Some(Lower(_projection_names[i]))
        /\ RowVal(BuilderAppended[n], "Phase") = Some(_phasemapping[j][2]) }

\* C1: a call of the row builder appends a long row for a (projection, phase)
\* pair exactly when the location's population for the pair is not None and the
\* projection has a non-empty period string; no appended long row has a null
\* Number, From or To, and the rows already in the list are kept.
C1_LongRowIffPopulationAndPeriod ==
    BuilderCalled =>
        /\ SubSeq(builder.rows, 1, Len(builder.rows_before)) = builder.rows_before
        /\ \A i \in 1..Len(_projections), j \in 1..Len(_phasemapping) :
                IF InputPopulation(i, j) # None /\ InputHasPeriod(i)
                THEN Cardinality(AppendedFor(i, j)) = 1
                ELSE AppendedFor(i, j) = {}
        /\ \A n \in 1..Len(BuilderAppended) :
                /\ RowVal(BuilderAppended[n], "Number") # None
                /\ RowVal(BuilderAppended[n], "From") # None
                /\ RowVal(BuilderAppended[n], "To") # None

\* a call that kept a pair, dropped a populated pair for want of a period and
\* dropped a pair of a projection with a period for want of a population
C1_Witness ==
    /\ BuilderCalled
    /\ \E i \in 1..Len(_projections), j \in 1..Len(_phasemapping) :
            InputPopulation(i, j) # None /\ InputHasPeriod(i) /\ AppendedFor(i, j) # {}
    /\ \E i \in 1..Len(_projections), j \in 1..Len(_phasemapping) :
            InputPopulation(i, j) # None /\ ~InputHasPeriod(i) /\ AppendedFor(i, j) = {}
    /\ \E i \in 1..Len(_projections), j \in 1..Len(_phasemapping) :
            InputPopulation(i, j) = None /\ InputHasPeriod(i) /\ AppendedFor(i, j) = {}

-----------------------------------------------------------------------------
(* Properties of get_country_data *)

\* the last step was a get_country_data call on a non-empty history
LastNonEmpty == last_call.iso3 # "" /\ Len(last_call.feed) > 0

LastFeed == Feed(last_call.feed)

\* the analysis date of the newest (first) record of the last call
NewestDate ==
    LET datestring == Val(LastFeed[1]["analysis_date"])
    IN  MkDate(datestring[2], MonthNum(datestring[1]), 1)

HasWatermark == last_call.iso3 \in DOMAIN last_call.state

AllHistorySets == {"country_rows", "country_rows_wide", "group_rows",
                   "group_rows_wide", "area_rows", "area_rows_wide"}

EmptyWindow == [start_date |-> default_enddate, end_date |-> default_date]

\* the rows of walking the whole history of the last call
LastAllRows == WalkHistory(EmptySets(EmptyWindow), LastFeed, last_call.iso3, 1)

\* the rows of walking the latest analysis with a current period, if there is one
LastLatestRows ==
    IF MostRecentCurrent(LastFeed) # 0
    THEN WalkAnalysis(EmptySets(EmptyWindow), LastFeed[MostRecentCurrent(LastFeed)],
                      last_call.iso3)
    ELSE EmptySets(EmptyWindow)

\* C2: when the newest analysis date of a country equals its stored watermark,
\* get_country_data returns None, yet every table of the global bundle is the
\* table before the call extended by the country's latest-analysis rows
\* ("_latest" tables) and all-history rows.
C2_NoUpdateStillExtendsGlobal ==
    (LastNonEmpty /\ HasWatermark /\ NewestDate = last_call.state[last_call.iso3]) =>
        /\ output = None
        /\ \E all \in {LastAllRows}, latest \in {LastLatestRows} :
                \A k \in AllHistorySets :
                    /\ _output[k] = last_call.bundle[k] \o all[k]
                    /\ _output[k \o "_latest"] = last_call.bundle[k \o "_latest"] \o latest[k]

\* a call at the watermark that added latest and all-history rows
C2_Witness ==
    /\ LastNonEmpty /\ HasWatermark /\ NewestDate = last_call.state[last_call.iso3]
    /\ output = None
    /\ Len(_output.country_rows_latest) > Len(last_call.bundle.country_rows_latest)
    /\ Len(_output.group_rows_wide_latest) > Len(last_call.bundle.group_rows_wide_latest)
    /\ Len(_output.country_rows) > Len(last_call.bundle.country_rows)

\* C3: after a get_country_data call on a non-empty history the state entry of
\* the country is the analysis date of the first record, update or not.
C3_WatermarkIsNewestDate ==
    LastNonEmpty => /\ last_call.iso3 \in DOMAIN _state
                    /\ _state[last_call.iso3] = NewestDate

\* a call that was no update and still moved the watermark
C3_Witness ==
    /\ LastNonEmpty
    /\ output = None
    /\ _state[last_call.iso3] = NewestDate
    /\ (HasWatermark => last_call.state[last_call.iso3] # NewestDate)

\* the larger of the stored watermark and DEFAULT
LargerCutoff ==
    IF HasWatermark /\ last_call.state[last_call.iso3] > last_call.state["DEFAULT"]
    THEN last_call.state[last_call.iso3]
    ELSE last_call.state["DEFAULT"]

\* C4, as the specification states it: the call is an update exactly when the newest date is
\* strictly later than the larger of the stored watermark and DEFAULT.
C4_UpdateIffLaterThanLargerCutoff ==
    LastNonEmpty => ((output # None) <=> (NewestDate > LargerCutoff))

\* C4: the call is an update exactly when the newest date is strictly later
\* than the stored watermark of the country if it has one, and than DEFAULT if
\* it has none; with a stored watermark older than DEFAULT, a newest date
\* between the two is an update.
C4_UpdateIffLaterThanWatermarkElseDefault ==
    LastNonEmpty =>
        /\ (output # None) <=>
                (NewestDate > (IF HasWatermark THEN last_call.state[last_call.iso3]
                               ELSE last_call.state["DEFAULT"]))
        /\ (/\ HasWatermark
            /\ last_call.state[last_call.iso3] < NewestDate
            /\ NewestDate <= last_call.state["DEFAULT"]) => output # None

\* an update whose newest date lies between an older watermark and DEFAULT
C4_Witness ==
    /\ LastNonEmpty /\ HasWatermark
    /\ last_call.state[last_call.iso3] < NewestDate
    /\ NewestDate <= last_call.state["DEFAULT"]
    /\ output # None

\* C5: a get_country_data call never increases the start_date of the global
\* bundle and never decreases its end_date.
C5_WindowNeverNarrows ==
    [][(ncalls' = ncalls + 1) =>
            /\ _output'.start_date <= _output.start_date
            /\ _output'.end_date >= _output.end_date]_vars

\* a call that widened a window an earlier call of the run had set, at one end only
C5_Witness ==
    /\ LastNonEmpty
    /\ last_call.bundle.start_date # default_enddate
    /\ _output.start_date < last_call.bundle.start_date
    /\ _output.end_date = last_call.bundle.end_date

\* the truthy period strings of the analyses of a history
PeriodsOf(h) ==
    { Val(Analyses[h[n]][_projections[i] \o "_period_dates"]) :
        <<n, i>> \in { <<n, i>> \in (1..Len(h)) \X (1..Len(_projections)) :
            /\ (_projections[i] \o "_period_dates") \in DOMAIN Analyses[h[n]]
            /\ Analyses[h[n]][_projections[i] \o "_period_dates"] # None
            /\ Analyses[h[n]][_projections[i] \o "_period_dates"] # Some(<<>>) } }

\* first day of the start month, last day of the end month
PeriodFirstDay(period) == MkDate(period[2], MonthNum(period[1]), 1)
PeriodLastDay(period) ==
    MkDate(period[4], MonthNum(period[3]), DaysInMonth(period[4], MonthNum(period[3])))

RunStarts == { PeriodFirstDay(p) : p \in UNION { PeriodsOf(run_log[n].feed) : n \in 1..Len(run_log) } }
RunEnds == { PeriodLastDay(p) : p \in UNION { PeriodsOf(run_log[n].feed) : n \in 1..Len(run_log) } }

SetMin(S) == CHOOSE x \in S : \A y \in S : x <= y
SetMax(S) == CHOOSE x \in S : \A y \in S : x >= y

\* the global window is not narrower than the window of any country of the run
CoversEveryCountry ==
    /\ \A n \in 1..Len(run_log) : \A p \in PeriodsOf(run_log[n].feed) :
            /\ _output.start_date <= PeriodFirstDay(p)
            /\ _output.end_date >= PeriodLastDay(p)
    /\ (LastNonEmpty /\ output # None) =>
            /\ _output.start_date <= Val(output)["start_date"]
            /\ _output.end_date >= Val(output)["end_date"]

\* C6, as the specification states it: after the countries of a run, the global window is the
\* min/max over the periods of their analyses.
C6_WindowIsMinMaxOfRunPeriods ==
    RunStarts # {} =>
        /\ _output.start_date = SetMin(RunStarts)
        /\ _output.end_date = SetMax(RunEnds)
        /\ CoversEveryCountry

\* C6: after the countries of a run, the global window is the min/max over the
\* window the bundle was constructed with (the START_DATE / END_DATE of the
\* state handed to the constructor, else the empty window) and the periods of
\* every projection of every analysis of those countries; it is never narrower
\* than the window of any single country.
C6_WindowIsMinMaxOfInitialAndRunPeriods ==
    /\ _output.start_date = SetMin(RunStarts \cup {initial_window.start_date})
    /\ _output.end_date = SetMax(RunEnds \cup {initial_window.end_date})
    /\ CoversEveryCountry

\* two countries processed, the global window wider than the window of each
C6_Witness ==
    /\ Len(run_log) = 2
    /\ PeriodsOf(run_log[1].feed) # {} /\ PeriodsOf(run_log[2].feed) # {}
    /\ \E p \in PeriodsOf(run_log[1].feed) : _output.end_date > PeriodLastDay(p)
    /\ \A p \in PeriodsOf(run_log[2].feed) : _output.start_date < PeriodFirstDay(p)
    /\ _output.start_date = SetMin(RunStarts)
    /\ _output.end_date = SetMax(RunEnds)

-----------------------------------------------------------------------------
(* Properties of HAPIOutput.process_data *)

EarlierDateLabel == "Duplicate row with earlier date of analysis excluded"
LowerPopulationLabel == "Duplicate row with lower population analyzed excluded"
TiedLabel == "Duplicate row excluded"
DuplicateLabels == {EarlierDateLabel, LowerPopulationLabel, TiedLabel}

\* the errors of a harmonized row, in order
ErrorsOf(row) == IF Split(row.error) = <<"">> THEN <<>> ELSE Split(row.error)

\* the duplicate errors of a harmonized row, in order
DuplicateErrorsOf(row) == SelectSeq(ErrorsOf(row), LAMBDA e : e \in DuplicateLabels)

\* the harmonized rows that stand for one analysis record each: phase "all"
RecordRows == {n \in 1..Len(hapi.rows) : hapi.rows[n].ipc_phase = "all"}

\* the duplicate key of a harmonized row
KeyOf(row) ==
    <<row.location_code, row.admin1_code, row.admin2_code, row.provider_admin1_name,
      row.provider_admin2_name, row.ipc_type, row.reference_period_start>>

\* the records that claim a key; records with no period claim none
KeyedRecords == {n \in RecordRows : hapi.rows[n].reference_period_start # None}

\* the groups of two or more records that claim the same key
MultiGroups ==
    LET keyed == KeyedRecords
        groups == { {m \in keyed : KeyOf(hapi.rows[m]) = KeyOf(hapi.rows[n])} : n \in keyed }
    IN  {group \in groups : Cardinality(group) >= 2}

DateNum(row) ==
    row.date_of_analysis[1] * 10000 + row.date_of_analysis[2] * 100 + row.date_of_analysis[3]

\* the records of a group with the latest date of analysis
Latest(group) ==
    {n \in group : \A m \in group : DateNum(hapi.rows[m]) <= DateNum(hapi.rows[n])}

\* the latest records of a group with the highest analyzed population
Highest(group) ==
    LET latest == Latest(group)
    IN  {n \in latest : \A m \in latest :
            hapi.rows[m].population_in_phase <= hapi.rows[n].population_in_phase}

\* the first-encountered record among the latest, most populous records of a group
Survivor(group) ==
    LET highest == Highest(group)
    IN  CHOOSE n \in highest : \A m \in highest : n <= m

\* C7: for every duplicate key with two or more records, exactly one record
\* ends with no duplicate error: the first-encountered record among those with
\* the latest date of analysis and, within those, the highest analyzed
\* population; a later date wins over an earlier one whatever the population.
C7_OneSurvivorPerKey ==
    hapi.done =>
        \A group \in MultiGroups :
            {n \in group : DuplicateErrorsOf(hapi.rows[n]) = <<>>} = {Survivor(group)}

\* a key with three records whose survivor has a later date and a lower
\* population than an excluded record
C7_Witness ==
    /\ hapi.done
    /\ \E group \in MultiGroups :
            /\ Cardinality(group) >= 3
            /\ DuplicateErrorsOf(hapi.rows[Survivor(group)]) = <<>>
            /\ \E m \in group :
                    /\ DateNum(hapi.rows[m]) < DateNum(hapi.rows[Survivor(group)])
                    /\ hapi.rows[m].population_in_phase
                            > hapi.rows[Survivor(group)].population_in_phase
                    /\ DuplicateErrorsOf(hapi.rows[m]) # <<>>

\* C8: in a duplicate key group a record with an earlier date than the latest
\* gets the earlier-date label, a latest-date record with less than the highest
\* population gets the lower-population label, every further tied record after
\* the first gets "Duplicate row excluded"; an excluded record has exactly one
\* of the three labels.
C8_DuplicateLabels ==
    hapi.done =>
        \A group \in MultiGroups :
            LET latest == Latest(group)
                highest == Highest(group)
                survivor == Survivor(group)
            IN  /\ \A n \in group \ latest :
                        DuplicateErrorsOf(hapi.rows[n]) = <<EarlierDateLabel>>
                /\ \A n \in latest \ highest :
                        DuplicateErrorsOf(hapi.rows[n]) = <<LowerPopulationLabel>>
                /\ \A n \in highest \ {survivor} :
                        DuplicateErrorsOf(hapi.rows[n]) = <<TiedLabel>>
                /\ \A n \in group \ {survivor} :
                        Len(DuplicateErrorsOf(hapi.rows[n])) = 1

\* one output in which each of the three labels was given
C8_Witness ==
    /\ hapi.done
    /\ \A label \in DuplicateLabels :
            \E group \in MultiGroups :
                \E n \in group : DuplicateErrorsOf(hapi.rows[n]) = <<label>>

\* the analyses whose record loses its key
ExcludedAnalyses ==
    { hapi.rows[n].analysis_id :
        n \in UNION { group \ {Survivor(group)} : group \in MultiGroups } }

\* the analyses whose record keeps its key against another record
SurvivingAnalyses == { hapi.rows[Survivor(group)].analysis_id : group \in MultiGroups }

\* C9: duplicate resolution never removes or reorders harmonized rows: the
\* output holds every row built before it, in order; rows outside multi-record
\* key groups and the rows of the survivor of a group keep their error field;
\* an excluded row keeps its earlier errors with the duplicate error appended.
C9_MarkingIsAdditive ==
    hapi.done =>
        LET excluded == ExcludedAnalyses
        IN  /\ Len(hapi.rows) = Len(hapi.built)
            /\ \A n \in 1..Len(hapi.rows) :
                    /\ [hapi.rows[n] EXCEPT !.error = hapi.built[n].error] = hapi.built[n]
                    /\ hapi.rows[n].analysis_id \notin excluded =>
                            hapi.rows[n].error = hapi.built[n].error
                    /\ hapi.rows[n].analysis_id \in excluded =>
                            \E label \in DuplicateLabels :
                                ErrorsOf(hapi.rows[n])
                                    = Append(ErrorsOf(hapi.built[n]), label)

\* an output with an excluded row of a phase, a surviving row and a row that
\* carries an error of its own
C9_Witness ==
    /\ hapi.done
    /\ \E n \in 1..Len(hapi.rows) :
            /\ hapi.rows[n].analysis_id \in ExcludedAnalyses
            /\ hapi.rows[n].ipc_phase # "all"
    /\ \E n \in 1..Len(hapi.rows) :
            /\ hapi.rows[n].analysis_id \in SurvivingAnalyses
            /\ hapi.rows[n].error = hapi.built[n].error
    /\ \E n \in 1..Len(hapi.rows) :
            /\ hapi.rows[n].error = hapi.built[n].error
            /\ ErrorsOf(hapi.rows[n]) # <<>>

\* the all-history wide tables and the resources their records are filed under
WideTables == { <<"country_rows_wide", "ipc_global_national_wide.csv">>,
                <<"group_rows_wide", "ipc_global_level1_wide.csv">>,
                <<"area_rows_wide", "ipc_global_area_wide.csv">> }

\* the wide rows, as (resource, index), that have at least one harmonized record
HarmonizedOrigins == {hapi.origin[n] : n \in 1..Len(hapi.origin)}

\* a wide row with an analyzed population for some projection
HasPopulationAnalyzed(row) ==
    \E projection \in {"current", "first projection", "second projection"} :
        RowVal(row, "Population analyzed " \o projection) # None

\* C10, as the specification states it: every row of the three all-history wide tables yields at
\* least one harmonized record.
C10_EveryWideRowHarmonized ==
    hapi.done =>
        LET harmonized == HarmonizedOrigins
        IN  \A table \in WideTables :
                \A i \in 1..Len(_output[table[1]]) : <<table[2], i>> \in harmonized

\* C10: every row of the three all-history wide tables that has an analyzed
\* population for at least one projection yields at least one harmonized
\* record, whether or not its admin names were resolved to pcodes; a row with
\* no analyzed population for any projection yields none.
C10_EveryPopulatedWideRowHarmonized ==
    hapi.done =>
        LET harmonized == HarmonizedOrigins
        IN  \A table \in WideTables :
                \A i \in 1..Len(_output[table[1]]) :
                    (<<table[2], i>> \in harmonized)
                        <=> HasPopulationAnalyzed(_output[table[1]][i])

\* an output with a record of a row whose admin name has no pcode, and a wide
\* row without analyzed population
C10_Witness ==
    /\ hapi.done
    /\ \E n \in 1..Len(hapi.rows) :
            /\ \E m \in 1..Len(Split(hapi.rows[n].warning)) :
                    Split(hapi.rows[n].warning)[m] \in {"PCode unknown admin1",
                                                         "PCode unknown admin2"}
            /\ hapi.rows[n].admin1_code = "" /\ hapi.rows[n].admin2_code = ""
    /\ \E table \in WideTables :
            \E i \in 1..Len(_output[table[1]]) :
                ~HasPopulationAnalyzed(_output[table[1]][i])

-----------------------------------------------------------------------------
(* The harmonized-export stage after the per-country loop *)

RECURSIVE RunAllRows(_)
\* the all-history rows of the first n countries of the run, walked in order
RunAllRows(n) ==
    IF n = 0 THEN EmptySets(EmptyWindow)
    ELSE WalkHistory(RunAllRows(n - 1), Feed(run_log[n].feed), run_log[n].iso3, 1)

BundleHoldsRun ==
    \E all \in {RunAllRows(Len(run_log))} :
        \A k \in AllHistorySets : _output[k] = all[k]

\* C11: when the harmonized-export stage starts, every all-history table of the
\* global bundle it receives is the concatenation, in loop order, of the
\* all-history rows of every country processed in the run, the countries whose
\* call returned None included; and no get_country_data call of the run comes
\* after the stage has started.
C11_StageReceivesWholeRun ==
    /\ [](hapi.done => BundleHoldsRun)
    /\ [][(hapi.done /\ hapi'.done) => ncalls' = ncalls]_vars

\* the stage has started in a run whose first country was no update and has rows
\* in the bundle
C11_Witness ==
    /\ hapi.done
    /\ Len(run_log) = 2
    /\ ~run_log[1].updated /\ Len(run_log[1].feed) > 0
    /\ \E n \in 1..Len(_output.country_rows) :
           RowVal(_output.country_rows[n], "Country") = Some(run_log[1].iso3)
    /\ \E n \in 1..Len(_output.country_rows) :
           RowVal(_output.country_rows[n], "Country") = Some(run_log[2].iso3)

-----------------------------------------------------------------------------
(* The watermark over a sequence of calls *)

\* C12, as the specification states it: over any sequence of get_country_data
\* calls, within a run or continuing from the persisted state, the stored
\* last-analysis date of a country after a call is never earlier than the one
\* stored before the call.
C12_WatermarkNeverMovesBack ==
    [][\A countryiso3 \in Countries :
          countryiso3 \in DOMAIN _state =>
              /\ countryiso3 \in DOMAIN _state'
              /\ _state'[countryiso3] >= _state[countryiso3]]_vars

-----------------------------------------------------------------------------
(* The latest analysis of a country *)

LatestSets == {"country_rows_latest", "country_rows_wide_latest", "group_rows_latest",
               "group_rows_wide_latest", "area_rows_latest", "area_rows_wide_latest"}

\* the positions, in the history of the last call, of the records with a
\* non-empty current_period_dates
CurrentRecords ==
    {k \in 1..Len(LastFeed) : TruthyTokens(LastFeed[k]["current_period_dates"])}

\* C13: the "_latest" row sets of a call are the rows of the first record of
\* the newest-first history whose current_period_dates is non-empty, with the
\* geojson of that record; when no record has one, the output holds no
\* "_latest" row set, its geojson is None and the global "_latest" tables are
\* the ones before the call.
C13_LatestIsFirstCurrentRecord ==
    LastNonEmpty =>
        IF CurrentRecords = {}
        THEN /\ \A k \in LatestSets : _output[k] = last_call.bundle[k]
             /\ output # None =>
                    /\ DOMAIN Val(output) \cap LatestSets = {}
                    /\ Val(output)["geojson"] = None
        ELSE \E latest \in {WalkAnalysis(EmptySets(EmptyWindow),
                                          LastFeed[SetMin(CurrentRecords)],
                                          last_call.iso3)} :
                /\ \A k \in AllHistorySets :
                       _output[k \o "_latest"] = last_call.bundle[k \o "_latest"] \o latest[k]
                /\ output # None =>
                       /\ \A k \in AllHistorySets : Val(output)[k \o "_latest"] = latest[k]
                       /\ Val(output)["geojson"] =
                              GeojsonPath(last_call.iso3, LastFeed[SetMin(CurrentRecords)])

\* an update whose latest rows come from a record that is not the newest one
C13_Witness ==
    /\ LastNonEmpty
    /\ CurrentRecords # {}
    /\ SetMin(CurrentRecords) > 1
    /\ output # None
    /\ Len(Val(output)["country_rows_latest"]) > 0
    /\ Len(_output.country_rows_latest) > Len(last_call.bundle.country_rows_latest)

-----------------------------------------------------------------------------
(* The wide row of a builder call *)

\* C14: every call of the row builder appends exactly one wide row to the
\* wide row set and keeps the wide rows already there, also when it appends
\* no long row.
C14_OneWideRowPerCall ==
    BuilderCalled =>
        /\ Len(builder.rows_wide) = Len(builder.rows_wide_before) + 1
        /\ SubSeq(builder.rows_wide, 1, Len(builder.rows_wide_before))
               = builder.rows_wide_before

\* a call on a location with a populated phase of a projection without period
\* dates: no long row, one wide row
C14_Witness ==
    /\ BuilderCalled
    /\ \E i \in 1..Len(_projections), j \in 1..Len(_phasemapping) :
           InputPopulation(i, j) # None /\ ~InputHasPeriod(i)
    /\ BuilderAppended = <<>>
    /\ Len(builder.rows_wide) = Len(builder.rows_wide_before) + 1

-----------------------------------------------------------------------------
(* The percentage of the whole analysed population *)

LongTables == {"country_rows", "group_rows", "area_rows", "country_rows_latest",
               "group_rows_latest", "area_rows_latest"}

\* C15: every long row of the global bundle with Phase "all" has Percentage
\* 1.0, whatever estimated_percentage the location carried in the input, and
\* every harmonized row with ipc_phase "all" has population_fraction_in_phase 1.
C15_WholePopulationIsOne ==
    /\ \A k \in LongTables : \A n \in 1..Len(_output[k]) :
            RowVal(_output[k][n], "Phase") = Some("all") =>
                RowVal(_output[k][n], "Percentage") = Some(One)
    /\ \A n \in 1..Len(hapi.rows) :
            hapi.rows[n].ipc_phase = "all" =>
                hapi.rows[n].population_fraction_in_phase = Some(One)

\* a bundle with a Phase "all" long row of an analysis whose input carried
\* another estimated_percentage, and a harmonized "all" row
C15_Witness ==
    /\ \E m \in 1..Len(run_log) : \E k \in 1..Len(run_log[m].feed) :
           /\ Get(Feed(run_log[m].feed)[k], "estimated_percentage") \notin {None, Some(One)}
           /\ \E n \in 1..Len(_output.country_rows) :
                  /\ RowVal(_output.country_rows[n], "Phase") = Some("all")
                  /\ RowVal(_output.country_rows[n], "Country") = Some(run_log[m].iso3)
                  /\ RowVal(_output.country_rows[n], "Date of analysis")
                         = Feed(run_log[m].feed)[k]["analysis_date"]
    /\ \E n \in 1..Len(hapi.rows) : hapi.rows[n].ipc_phase = "all"

-----------------------------------------------------------------------------
(* IPC.parse_date_range on its own *)

\* the run part of the state while a single function is called on its own
Constructed ==
    /\ _state = [k \in {"DEFAULT"} |-> DefaultCutoff]
    /\ _output = NewOutput([k \in {"DEFAULT"} |-> DefaultCutoff])
    /\ output = None
    /\ visited = {}
    /\ ncalls = 0
    /\ last_call = NoCall
    /\ run_log = <<>>
    /\ initial_window = [start_date |-> default_enddate, end_date |-> default_date]
    /\ hapi = NoHapi
    /\ builder = NoBuilder

\* the years of the ranges: a leap year, a common year, a century leap year
\* and a century common year
RangeYears == {2000, 2023, 2024, 2100}

\* "Mon YYYY - Mon YYYY"
DateRanges ==
    { <<MonthNames[m1], y1, MonthNames[m2], y2>> :
        m1 \in 1..12, y1 \in RangeYears, m2 \in 1..12, y2 \in RangeYears }

\* the time_period handed in: a fresh one and one that already covers the ranges
RangeTimePeriods ==
    { [start_date |-> default_enddate, end_date |-> default_date],
      [start_date |-> 19990101, end_date |-> 21010131] }

InitDates ==
    /\ Constructed
    /\ main = NoMain
    /\ \E date_range \in DateRanges, time_period \in RangeTimePeriods :
          trial = [pc |-> "range", date_range |-> date_range, time_period |-> time_period]

\* startdatestr, enddatestr = self.parse_date_range(period_date, time_period)
ParseDateRange ==
    /\ trial.pc = "range"
    /\ \E parsed \in {parse_date_range(trial.date_range, trial.time_period)} :
          trial' = [pc |-> "parsed", date_range |-> trial.date_range,
                    time_period_before |-> trial.time_period,
                    startdatestr |-> parsed.startdatestr,
                    enddatestr |-> parsed.enddatestr,
                    time_period |-> parsed.time_period]
    /\ UNCHANGED <<_state, _output, output, visited, ncalls, last_call, run_log,
                   initial_window, hapi, builder, main>>

NextDates == ParseDateRange

SpecDates == InitDates /\ [][NextDates]_vars

\* the calendar, written out: the last day of each month of the years above
LastDayOfMonth(y, m) ==
    IF m = 2 THEN (IF y \in {2000, 2024} THEN 29 ELSE 28)
    ELSE <<31, 0, 31, 30, 31, 30, 31, 31, 30, 31, 30, 31>>[m]

\* C16: for every range "Mon YYYY - Mon YYYY" parse_date_range returns as
\* start the first day of the start month and as end the last calendar day of
\* the end month (31 for December and October, 29 for February of a leap year
\* and 28 otherwise).
C16_RangeIsFirstDayToLastDay ==
    trial.pc = "parsed" =>
        /\ trial.startdatestr = <<trial.date_range[2], MonthNum(trial.date_range[1]), 1>>
        /\ trial.enddatestr = <<trial.date_range[4], MonthNum(trial.date_range[3]),
                                LastDayOfMonth(trial.date_range[4],
                                               MonthNum(trial.date_range[3]))>>

\* "May 2023 - Oct 2023" parsed to 2023-05-01 and 2023-10-31
C16_Witness ==
    /\ trial.pc = "parsed"
    /\ trial.date_range = <<"May", 2023, "Oct", 2023>>
    /\ trial.startdatestr = <<2023, 5, 1>>
    /\ trial.enddatestr = <<2023, 10, 31>>

-----------------------------------------------------------------------------
(* Countries whose Level 1 names are admin 2 units *)

\* C17: for a country of the adm2_in_level1 list, every harmonized row of a
\* row of the level 1 table (Level 1 named, no Area) has admin_level 2, the
\* Level 1 name as provider_admin2_name and an empty provider_admin1_name, and
\* its admin 2 code is the one the matcher gives for the Level 1 name as an
\* admin 2 name (none when the name matches an ignore pattern), with no admin 1
\* code.
C17_Level1NameIsAdmin2 ==
    \A n \in 1..Len(hapi.rows) :
        (/\ hapi.rows[n].location_code \in adm2_in_level1
         /\ hapi.origin[n][1] = "ipc_global_level1_wide.csv") =>
            \E level1_name \in {RowVal(_output.group_rows_wide[hapi.origin[n][2]], "Level 1")} :
                /\ hapi.rows[n].admin_level = 2
                /\ hapi.rows[n].provider_admin1_name = Some("")
                /\ hapi.rows[n].provider_admin2_name = level1_name
                /\ hapi.rows[n].admin1_code = ""
                /\ hapi.rows[n].admin2_code =
                       IF IgnoredName(hapi.rows[n].location_code, <<Some(""), level1_name>>)
                       THEN ""
                       ELSE Pcode(hapi.rows[n].location_code, 2, Val(level1_name))

\* a harmonized row of such a country whose Level 1 name was matched as an
\* admin 2 unit
C17_Witness ==
    \E n \in 1..Len(hapi.rows) :
        /\ hapi.rows[n].location_code \in adm2_in_level1
        /\ hapi.origin[n][1] = "ipc_global_level1_wide.csv"
        /\ ~HasKey(_output.group_rows_wide[hapi.origin[n][2]], "Area")
        /\ hapi.rows[n].provider_admin2_name = Some("North")
        /\ hapi.rows[n].admin2_code = "ETH0101"
        /\ hapi.rows[n].admin_level = 2

-----------------------------------------------------------------------------
(* The walk over the history of one country on its own *)

MaxGroups == 2    \* most groups of an analysis

Without(dict, keys) == [k \in DOMAIN dict \ keys |-> dict[k]]

\* a group whose areas are None, one with an area and one without the key
WalkerGroups == {GroupNorthX2, GroupNorthX3, GroupNorthX4}

GroupLists == UNION { [1..n -> WalkerGroups] : n \in 1..MaxGroups }

\* analysis a of the catalogue with every shape of "groups" and "areas"
WalkerAnalyses(a) ==
    { Merge(Without(Analyses[a], {"groups", "areas"}),
            Dict(Item("groups", groups) \cup Item("areas", areas))) :
        groups \in {Absent, None, Some(<<>>)} \cup {Some(list) : list \in GroupLists},
        areas \in {Absent, None, Some(<<AreaAlpha>>)} }

\* newest first: a variant of X3 alone or followed by a variant of X1 with at
\* most one group
WalkerHistories ==
    { <<a>> : a \in WalkerAnalyses(3) }
    \cup { <<a, b>> : a \in WalkerAnalyses(3),
                      b \in { b \in WalkerAnalyses(1) :
                                 \/ Get(b, "groups") \in {None, Some(<<>>)}
                                 \/ Len(Val(b["groups"])) = 1 } }

InitWalker ==
    /\ Constructed
    /\ main = NoMain
    /\ \E country_data \in WalkerHistories :
          trial = [pc |-> "history", country_data |-> country_data]

\* process_areas(base_row, analysis) reads analysis["areas"]: a KeyError when
\* the analysis has neither groups nor the key
WalkRaises(analysis) ==
    ~TruthyList(Get(analysis, "groups")) /\ "areas" \notin DOMAIN analysis

\* the all-history loop of get_country_data over country_data
WalkCountry ==
    /\ trial.pc = "history"
    /\ IF \E k \in 1..Len(trial.country_data) : WalkRaises(trial.country_data[k])
       THEN trial' = [pc |-> "raised", country_data |-> trial.country_data]
       ELSE \E sets \in {WalkHistory(EmptySets(NewTimePeriod), trial.country_data,
                                      "AFG", 1)} :
               trial' = [pc |-> "walked", country_data |-> trial.country_data,
                         sets |-> sets]
    /\ UNCHANGED <<_state, _output, output, visited, ncalls, last_call, run_log,
                   initial_window, hapi, builder, main>>

NextWalker == WalkCountry

SpecWalker == InitWalker /\ [][NextWalker]_vars

\* the groups of the analysis at position k of the walked history
GroupsAt(k) ==
    IF Get(trial.country_data[k], "groups") \in {None, Some(<<>>)} THEN <<>>
    ELSE Val(trial.country_data[k]["groups"])

\* the subtrees process_areas is called on: <<k, 0>> for the analysis itself
\* when it has no groups, <<k, g>> for its group g when the group has the key
Subtrees ==
    { <<k, 0>> : k \in {k \in 1..Len(trial.country_data) : GroupsAt(k) = <<>>} }
    \cup UNION { { <<k, g>> : g \in {g \in 1..Len(GroupsAt(k)) :
                                        "areas" \in DOMAIN GroupsAt(k)[g]} } :
                   k \in 1..Len(trial.country_data) }

AreasOf(subtree) ==
    IF subtree[2] = 0 THEN Get(trial.country_data[subtree[1]], "areas")
    ELSE GroupsAt(subtree[1])[subtree[2]]["areas"]

NoneSubtrees == {subtree \in Subtrees : AreasOf(subtree) = None}

\* the areas of the subtrees whose "areas" is a list
WalkedAreas ==
    UNION { { <<subtree, a>> : a \in 1..Len(Val(AreasOf(subtree))) } :
             subtree \in Subtrees \ NoneSubtrees }

AllGroups ==
    UNION { { <<k, g>> : g \in 1..Len(GroupsAt(k)) } : k \in 1..Len(trial.country_data) }

\* C18: when the "areas" field of an analysis or of a group is None, and every
\* analysis without groups has the field, the walk does not raise; it logs one
\* error for each such subtree, naming the country and the analysis, and still
\* produces one country row set entry for every analysis, one for every group
\* of every analysis and one for every area of the other subtrees.
C18_NoneAreasSkipsOnlyTheSubtree ==
    (/\ trial.pc \in {"walked", "raised"}
     /\ \A k \in 1..Len(trial.country_data) :
            GroupsAt(k) = <<>> => "areas" \in DOMAIN trial.country_data[k]) =>
        /\ trial.pc = "walked"
        /\ Len(trial.sets.logged) = Cardinality(NoneSubtrees)
        /\ \A n \in 1..Len(trial.sets.logged) :
               \E subtree \in NoneSubtrees :
                   trial.sets.logged[n] =
                       <<"AFG", Val(trial.country_data[subtree[1]]["title"])>>
        /\ Len(trial.sets.country_rows_wide) = Len(trial.country_data)
        /\ Len(trial.sets.group_rows_wide) = Cardinality(AllGroups)
        /\ Len(trial.sets.area_rows_wide) = Cardinality(WalkedAreas)

\* a walk over two analyses, the first with a group whose areas are None
\* followed by a group with an area: one error logged, both groups and the
\* later area in the row sets, the second analysis walked
C18_Witness ==
    /\ trial.pc = "walked"
    /\ Len(trial.country_data) = 2
    /\ Len(GroupsAt(1)) = 2
    /\ <<1, 1>> \in NoneSubtrees
    /\ <<<<1, 2>>, 1>> \in WalkedAreas
    /\ <<<<2, 0>>, 1>> \in WalkedAreas
    /\ Len(trial.sets.logged) = 1
    /\ Len(trial.sets.group_rows_wide) = 2
    /\ Len(trial.sets.area_rows_wide) = 2
    /\ Len(trial.sets.country_rows_wide) = 2

-----------------------------------------------------------------------------
(* IPC.generate_dataset_and_showcase *)

\* countryiso3.lower()
IsoLower(countryiso3) ==
    CASE countryiso3 = "AFG" -> "afg"
      [] countryiso3 = "ETH" -> "eth"

\* the keys of the output the function reads
DatasetKeys == LatestSets \cup AllHistorySets \cup {"start_date", "end_date"}

\* output.get("countryiso3")
OutputCountry(out) == Get(out, "countryiso3")

\* "global" or the lower-cased iso3 of the file names
FilePrefix(out) ==
    IF OutputCountry(out) = None THEN "global" ELSE IsoLower(Val(OutputCountry(out)))

\* f"ipc_{countryiso3lower}_{suffix}" as the pair (prefix, suffix)
FileName(out, suffix) == <<FilePrefix(out), suffix>>

\* the resource of a table that is written only when it has rows
WhenRows(out, key, suffix) ==
    IF out[key] # <<>> THEN <<FileName(out, suffix)>> ELSE <<>>

\* the geojson resource of a country dataset
GeojsonResource(out) ==
    IF OutputCountry(out) # None THEN <<FileName(out, "geojson")>> ELSE <<>>

\* the resources of the latest analysis, once the national long table has rows
LatestResources(out) ==
    <<FileName(out, "national_long_latest.csv")>>
    \o (IF Len(out["country_rows_wide_latest"]) > 1
        THEN <<FileName(out, "national_wide_latest.csv")>> ELSE <<>>)
    \o WhenRows(out, "group_rows_latest", "level1_long_latest.csv")
    \o WhenRows(out, "group_rows_wide_latest", "level1_wide_latest.csv")
    \o WhenRows(out, "area_rows_latest", "area_long_latest.csv")
    \o WhenRows(out, "area_rows_wide_latest", "area_wide_latest.csv")

\* the all-history resources: none when there is a single analysis
AllResources(out) ==
    IF Len(out["country_rows_wide"]) = 1 THEN <<>>
    ELSE <<FileName(out, "national_long.csv"), FileName(out, "national_wide.csv")>>
         \o WhenRows(out, "group_rows", "level1_long.csv")
         \o WhenRows(out, "group_rows_wide", "level1_wide.csv")
         \o WhenRows(out, "area_rows", "area_long.csv")
         \o WhenRows(out, "area_rows_wide", "area_wide.csv")

\* the logger.error calls on missing subnational data
SubnationalErrors(out) ==
    (IF out["area_rows_latest"] = <<>> /\ out["group_rows_latest"] = <<>>
     THEN <<"has no latest subnational data!">> ELSE <<>>)
    \o (IF /\ Len(out["country_rows_wide"]) # 1
           /\ out["area_rows"] = <<>> /\ out["group_rows"] = <<>>
        THEN <<"has no subnational data!">> ELSE <<>>)

NoDataset == [raised |-> FALSE, dataset |-> None, warnings |-> <<>>, errors |-> <<>>]

\* [raised, dataset, warnings, errors]: the dataset is the list of the file
\* names of its resources, None when the function returns None, None; raised
\* is a KeyError on a key the output does not hold; given is the output argument
generate_dataset_and_showcase(given) ==
    IF given = None THEN NoDataset
    ELSE IF ~(DatasetKeys \subseteq DOMAIN Val(given))
         THEN [NoDataset EXCEPT !.raised = TRUE]
    ELSE IF Val(given)["country_rows_latest"] = <<>>
         THEN IF OutputCountry(Val(given)) = None THEN NoDataset
              ELSE [NoDataset EXCEPT !.warnings =
                        <<<<FileName(Val(given), "national_long_latest.csv"),
                            "has no data!">>>>]
    ELSE [raised |-> FALSE,
          dataset |-> Some(GeojsonResource(Val(given)) \o LatestResources(Val(given))
                           \o AllResources(Val(given))),
          warnings |-> <<>>,
          errors |-> SubnationalErrors(Val(given))]

\* one row, two rows
OneRow == <<BuilderBaseRow>>
TwoRows == <<BuilderBaseRow, BuilderBaseRow>>

\* the output of a country none of whose analyses has a current period
OutputWithoutLatest ==
    Some(Dict({<<"countryiso3", Some("AFG")>>, <<"geojson", None>>,
               <<"start_date", 20210601>>, <<"end_date", 20240229>>,
               <<"country_rows", OneRow>>, <<"country_rows_wide", OneRow>>,
               <<"group_rows", <<>>>>, <<"group_rows_wide", TwoRows>>,
               <<"area_rows", <<>>>>, <<"area_rows_wide", <<>>>>}))

\* outputs with every combination of empty and non-empty row sets
DatasetOutputs ==
    { Some(Dict(Item("countryiso3", countryiso3)
                \cup {<<"geojson", Some(<<"AFG", 3, 2021>>)>>,
                      <<"start_date", 20210301>>, <<"end_date", 20240229>>,
                      <<"country_rows_latest", country_latest>>,
                      <<"country_rows_wide_latest", wide_latest>>,
                      <<"group_rows_latest", group_latest>>,
                      <<"group_rows_wide_latest", group_latest>>,
                      <<"area_rows_latest", area_latest>>,
                      <<"area_rows_wide_latest", area_latest>>,
                      <<"country_rows", country_latest \o country_latest>>,
                      <<"country_rows_wide", wide>>,
                      <<"group_rows", groups>>,
                      <<"group_rows_wide", groups>>,
                      <<"area_rows", areas>>,
                      <<"area_rows_wide", areas>>})) :
        countryiso3 \in {Absent, Some("AFG")},
        country_latest \in {<<>>, OneRow},
        wide_latest \in {OneRow, TwoRows},
        group_latest \in {<<>>, OneRow},
        area_latest \in {<<>>, OneRow},
        wide \in {OneRow, TwoRows},
        groups \in {<<>>, TwoRows},
        areas \in {<<>>, TwoRows} }
    \cup {None, OutputWithoutLatest}

InitDataset ==
    /\ Constructed
    /\ main = NoMain
    /\ \E out \in DatasetOutputs : trial = [pc |-> "output", output |-> out]

\* dataset, showcase = ipc.generate_dataset_and_showcase(folder, output)
GenerateDataset ==
    /\ trial.pc = "output"
    /\ \E generated \in {generate_dataset_and_showcase(trial.output)} :
          trial' = [pc |-> "generated", output |-> trial.output,
                    raised |-> generated.raised, dataset |-> generated.dataset,
                    warnings |-> generated.warnings, errors |-> generated.errors]
    /\ UNCHANGED <<_state, _output, output, visited, ncalls, last_call, run_log,
                   initial_window, hapi, builder, main>>

NextDataset == GenerateDataset

SpecDataset == InitDataset /\ [][NextDataset]_vars

\* the CSV artifacts of a dataset with the row set each is written from
Artifacts ==
    { <<"country_rows_latest", "national_long_latest.csv">>,
      <<"group_rows_latest", "level1_long_latest.csv">>,
      <<"group_rows_wide_latest", "level1_wide_latest.csv">>,
      <<"area_rows_latest", "area_long_latest.csv">>,
      <<"area_rows_wide_latest", "area_wide_latest.csv">> }

\* C20, as the specification states it: when an artifact of a dataset has an
\* empty row set, for example zero latest country rows, the function still
\* produces the dataset, skips only the CSV of that artifact, with a warning,
\* and writes the CSV of every artifact that has rows.
C20_EmptyArtifactSkipsOnlyItsFile ==
    (/\ trial.pc = "generated"
     /\ trial.output # None
     /\ OutputCountry(Val(trial.output)) # None
     /\ DatasetKeys \subseteq DOMAIN Val(trial.output)
     /\ \E artifact \in Artifacts : Val(trial.output)[artifact[1]] = <<>>) =>
        /\ trial.dataset # None
        /\ \A artifact \in Artifacts :
               IF Val(trial.output)[artifact[1]] = <<>>
               THEN /\ \A n \in 1..Len(Val(trial.dataset)) :
                          Val(trial.dataset)[n][2] # artifact[2]
                    /\ \E n \in 1..Len(trial.warnings) :
                          trial.warnings[n][1][2] = artifact[2]
               ELSE \E n \in 1..Len(Val(trial.dataset)) :
                          Val(trial.dataset)[n][2] = artifact[2]

-----------------------------------------------------------------------------
(* main: the per-country loop and the stage after it *)

\* what the source returns for a country: well-formed histories and histories
\* with a record that lacks a key the code reads
MainFeeds ==
    { <<>>, <<X1>>, <<X2>>, <<X3>>, <<X4>>, <<X3, X1>>, <<X4, X3>>, <<X3, X2, X1>>,
      <<Without(X3, {"analysis_date"})>>,
      <<X4, Without(X1, {"current_period_dates"})>>,
      <<X3, Without(X1, {"areas"})>> }

\* the loop over country_data reads analysis["current_period_dates"] of every
\* record up to the first one that has a current period
ScanRaises(country_data) ==
    \E k \in 1..Len(country_data) :
        /\ "current_period_dates" \notin DOMAIN country_data[k]
        /\ \A l \in 1..(k - 1) :
               /\ "current_period_dates" \in DOMAIN country_data[l]
               /\ ~TruthyTokens(country_data[l]["current_period_dates"])

\* get_country_data ends with a KeyError
GetCountryDataRaises(country_data) ==
    /\ Len(country_data) > 0
    /\ \/ \E k \in 1..Len(country_data) : "analysis_date" \notin DOMAIN country_data[k]
       \/ ScanRaises(country_data)
       \/ \E k \in 1..Len(country_data) : WalkRaises(country_data[k])

StartOfMain ==
    [pc |-> "loop", position |-> 1, called |-> {}, country_data_updated |-> FALSE,
     datasets |-> <<>>, global |-> None, saved |-> FALSE]

InitMain ==
    /\ Constructed
    /\ trial = NoTrial
    /\ main = StartOfMain

\* output = ipc.get_country_data(countryiso); if output: country_data_updated = True
\* an exception leaves the loop and main
MainGetCountryData(country_data) ==
    /\ main.pc = "loop"
    /\ main.position <= Len(get_countries)
    /\ IF GetCountryDataRaises(country_data)
       THEN /\ main' = [main EXCEPT !.pc = "raised",
                                     !.called = @ \cup {get_countries[main.position]}]
            /\ UNCHANGED <<_state, _output, output>>
       ELSE \E result \in {get_country_data(get_countries[main.position], country_data,
                                             _state, _output)} :
               /\ _state' = result.state
               /\ _output' = result.bundle
               /\ output' = result.ret
               /\ main' = [main EXCEPT
                              !.pc = "dataset",
                              !.called = @ \cup {get_countries[main.position]},
                              !.country_data_updated = @ \/ result.ret # None]
    /\ UNCHANGED <<visited, ncalls, last_call, run_log, initial_window, hapi, builder,
                   trial>>

\* dataset, showcase = ipc.generate_dataset_and_showcase(folder, output);
\* create_dataset(dataset, showcase), which returns at once without a dataset
MainGenerateDataset ==
    /\ main.pc = "dataset"
    /\ \E generated \in {generate_dataset_and_showcase(output)} :
          main' = IF generated.raised THEN [main EXCEPT !.pc = "raised"]
                  ELSE [main EXCEPT
                          !.pc = "loop",
                          !.position = @ + 1,
                          !.datasets = IF generated.dataset = None THEN @
                                       ELSE Append(@, <<get_countries[main.position],
                                                       Val(generated.dataset)>>)]
    /\ UNCHANGED <<_state, _output, output, visited, ncalls, last_call, run_log,
                   initial_window, hapi, builder, trial>>

\* an end of main that generates the global dataset and the harmonized export
\* whether or not a country was updated
MainFinish_Unconditional ==
    /\ main.pc = "loop"
    /\ main.position > Len(get_countries)
    /\ \E generated \in {generate_dataset_and_showcase(Some(_output))},
          result \in {process_data(_output)} :
          /\ main' = [main EXCEPT !.pc = "done", !.saved = TRUE,
                                  !.global = generated.dataset]
          /\ hapi' = [done |-> TRUE, built |-> result.built, rows |-> result.rows,
                      origin |-> result.origin]
    /\ UNCHANGED <<_state, _output, output, visited, ncalls, last_call, run_log,
                   initial_window, builder, trial>>

\* after the loop: the global dataset and the harmonized export when a country
\* was updated, then state.set(state_dict)
MainFinish ==
    /\ main.pc = "loop"
    /\ main.position > Len(get_countries)
    /\ IF main.country_data_updated
       THEN \E generated \in {generate_dataset_and_showcase(Some(_output))},
               result \in {process_data(_output)} :
               /\ main' = [main EXCEPT !.pc = "done", !.saved = TRUE,
                                       !.global = generated.dataset]
               /\ hapi' = [done |-> TRUE, built |-> result.built, rows |-> result.rows,
                           origin |-> result.origin]
       ELSE /\ main' = [main EXCEPT !.pc = "done", !.saved = TRUE]
            /\ UNCHANGED hapi
    /\ UNCHANGED <<_state, _output, output, visited, ncalls, last_call, run_log,
                   initial_window, builder, trial>>

NextMain ==
    \/ \E country_data \in MainFeeds : MainGetCountryData(country_data)
    \/ MainGenerateDataset
    \/ MainFinish

\* no action is enabled once main.pc is "raised" or "done": the run is over
SpecMain == InitMain /\ [][NextMain]_vars

\* C19, as the specification states it: a missing required key that makes
\* get_country_data raise halts only the processing of that country; the
\* loop of main goes on to the remaining countries, so a run never ends by
\* the exception while a country of the list has not been processed.
C19_RaiseHaltsOnlyThatCountry ==
    main.pc = "raised" => \A countryiso3 \in Countries : countryiso3 \in main.called

-----------------------------------------------------------------------------
(* An analysis without groups *)

\* C21, as the specification states it: for an analysis without groups the
\* walk does not raise; when the analysis has an "areas" list every area
\* yields an area row with Level 1 = None, and when it has no "areas" field at
\* all (or a None one) the walk yields no area row.
C21_NoGroupsWalksOwnAreas ==
    (/\ trial.pc \in {"walked", "raised"}
     /\ Len(trial.country_data) = 1
     /\ GroupsAt(1) = <<>>) =>
        /\ trial.pc = "walked"
        /\ IF Get(trial.country_data[1], "areas") # None
           THEN /\ Len(trial.sets.area_rows_wide) = Len(Val(trial.country_data[1]["areas"]))
                /\ \A n \in 1..Len(trial.sets.area_rows_wide) :
                       /\ RowVal(trial.sets.area_rows_wide[n], "Level 1") = None
                       /\ RowVal(trial.sets.area_rows_wide[n], "Area")
                              = Val(trial.country_data[1]["areas"])[n]["name"]
           ELSE trial.sets.area_rows_wide = <<>>

-----------------------------------------------------------------------------
(* The period of a group or area row *)

\* the wide row the last builder call appended
BuilderWideRow == builder.rows_wide[Len(builder.rows_wide)]

\* the "{projection}_period_dates" of the location and of the enclosing analysis
OwnPeriod(i) == Get(builder.call.location, _projections[i] \o "_period_dates")
EnclosingPeriod(i) == Get(Val(builder.call.analysis), _projections[i] \o "_period_dates")

\* the "from" column of projection i is the first day of the period, None
\* without a period
FromIs(i, period) ==
    RowVal(BuilderWideRow, _projection_names[i] \o " from") =
        IF TruthyTokens(period) THEN Some(<<Val(period)[2], MonthNum(Val(period)[1]), 1>>)
        ELSE None

\* C22, as the specification states it: for a group or area row the period of
\* each projection is the location's own "{projection}_period_dates" when that
\* is present and non-empty, and the one of the enclosing analysis otherwise.
C22_PeriodFromLocationFirst ==
    (BuilderCalled /\ builder.call.analysis # None) =>
        \A i \in 1..Len(_projections) :
            FromIs(i, IF TruthyTokens(OwnPeriod(i)) THEN OwnPeriod(i) ELSE EnclosingPeriod(i))

\* C22: for a group or area row the period of each projection is the
\* "{projection}_period_dates" of the enclosing analysis, whatever the
\* location itself carries; without one on the analysis the row has no period.
C22_PeriodFromAnalysisOnly ==
    (BuilderCalled /\ builder.call.analysis # None) =>
        \A i \in 1..Len(_projections) : FromIs(i, EnclosingPeriod(i))

\* a group row whose location carries a current period of its own while the
\* analysis has none: the row has no current period
C22_Witness ==
    /\ BuilderCalled
    /\ builder.call.analysis # None
    /\ TruthyTokens(OwnPeriod(1))
    /\ ~TruthyTokens(EnclosingPeriod(1))
    /\ RowVal(BuilderWideRow, "Current from") = None

-----------------------------------------------------------------------------
(* The columns of a wide row *)

\* C23, as the specification states it: the wide row holds the period columns
\* of a projection only when the projection has a period, and the number
\* column of a phase only when the phase is populated; otherwise the keys are
\* absent.
C23_UnpopulatedColumnsAbsent ==
    BuilderCalled =>
        \A i \in 1..Len(_projections) :
            /\ ~InputHasPeriod(i) =>
                   /\ ~HasKey(BuilderWideRow, _projection_names[i] \o " from")
                   /\ ~HasKey(BuilderWideRow, _projection_names[i] \o " to")
            /\ \A j \in 1..Len(_phasemapping) :
                   InputPopulation(i, j) = None =>
                       ~HasKey(BuilderWideRow,
                               NumberColumn(_phasemapping[j][2], Lower(_projection_names[i])))

\* C23: every wide row holds the period columns of every projection and the
\* number column of every phase of every projection (and the percentage
\* column of every phase but "all"); a column of an unpopulated projection or
\* phase is present with the value None.
C23_EveryColumnPresent ==
    BuilderCalled =>
        \A i \in 1..Len(_projections) :
            /\ HasKey(BuilderWideRow, _projection_names[i] \o " from")
            /\ HasKey(BuilderWideRow, _projection_names[i] \o " to")
            /\ ~InputHasPeriod(i) =>
                   /\ RowVal(BuilderWideRow, _projection_names[i] \o " from") = None
                   /\ RowVal(BuilderWideRow, _projection_names[i] \o " to") = None
            /\ \A j \in 1..Len(_phasemapping) :
                   /\ HasKey(BuilderWideRow,
                             NumberColumn(_phasemapping[j][2], Lower(_projection_names[i])))
                   /\ RowVal(BuilderWideRow,
                             NumberColumn(_phasemapping[j][2], Lower(_projection_names[i])))
                          = InputPopulation(i, j)
                   /\ _phasemapping[j][2] # "all" =>
                          HasKey(BuilderWideRow,
                                 PercentageColumn(_phasemapping[j][2],
                                                  Lower(_projection_names[i])))

\* a wide row of a location without any second projection: the columns are
\* there and hold None
C23_Witness ==
    /\ BuilderCalled
    /\ ~InputHasPeriod(3)
    /\ \A j \in 1..Len(_phasemapping) : InputPopulation(3, j) = None
    /\ HasKey(BuilderWideRow, "Second projection from")
    /\ RowVal(BuilderWideRow, "Second projection from") = None
    /\ HasKey(BuilderWideRow, "Phase 4 number second projection")
    /\ RowVal(BuilderWideRow, "Phase 4 number second projection") = None

-----------------------------------------------------------------------------
(* A blank Level 1 name with a populated Area *)

ExceptionLists ==
    adm1_only \cup adm2_only \cup adm2_only_include_adm1 \cup adm2_in_level1
        \cup adm1_in_area

\* the wide row a harmonized row was built from
HapiSource(n) ==
    IF hapi.origin[n][1] = "ipc_global_national_wide.csv"
    THEN _output.country_rows_wide[hapi.origin[n][2]]
    ELSE IF hapi.origin[n][1] = "ipc_global_level1_wide.csv"
    THEN _output.group_rows_wide[hapi.origin[n][2]]
    ELSE _output.area_rows_wide[hapi.origin[n][2]]

\* a subnational harmonized row of a country of no exception list whose source
\* row has a blank Level 1 name and a populated Area name
BlankLevel1Row(n) ==
    /\ hapi.origin[n][1] # "ipc_global_national_wide.csv"
    /\ hapi.rows[n].location_code \notin ExceptionLists
    /\ ~TruthyName(RowGet(HapiSource(n), "Level 1", Some("")))
    /\ TruthyName(RowGet(HapiSource(n), "Area", Some("")))

HasWarning(n, warning) ==
    \E m \in 1..Len(hapi.rows[n].warning) : hapi.rows[n].warning[m] = warning

\* C24, as the specification states it: such a row has admin_level 1, the Area
\* name as provider_admin1_name, an empty provider_admin2_name, and carries
\* the warning about the blank Level 1 name, in the area table as in the group
\* table.
C24_FallbackCarriesWarning ==
    \A n \in 1..Len(hapi.rows) :
        BlankLevel1Row(n) =>
            /\ hapi.rows[n].admin_level = 1
            /\ hapi.rows[n].provider_admin1_name = RowVal(HapiSource(n), "Area")
            /\ hapi.rows[n].provider_admin2_name = Some("")
            /\ HasWarning(n, "Blank Level 1 name")

\* C24: such a row has admin_level 1, the Area name as provider_admin1_name
\* and an empty provider_admin2_name; it comes from the area table (a row of
\* the group table has no Area), and it carries neither the "Blank Level 1
\* name" nor the "Blank Area name" warning.
C24_FallbackWithoutWarning ==
    \A n \in 1..Len(hapi.rows) :
        BlankLevel1Row(n) =>
            /\ hapi.rows[n].admin_level = 1
            /\ hapi.rows[n].provider_admin1_name = RowVal(HapiSource(n), "Area")
            /\ hapi.rows[n].provider_admin2_name = Some("")
            /\ hapi.origin[n][1] = "ipc_global_area_wide.csv"
            /\ ~HasWarning(n, "Blank Level 1 name")
            /\ ~HasWarning(n, "Blank Area name")

\* a harmonized row of an area that lies directly under its analysis
C24_Witness ==
    \E n \in 1..Len(hapi.rows) :
        /\ BlankLevel1Row(n)
        /\ hapi.rows[n].location_code = "AFG"
        /\ RowVal(HapiSource(n), "Level 1") = None
        /\ hapi.rows[n].admin_level = 1
        /\ hapi.rows[n].provider_admin1_name = RowVal(HapiSource(n), "Area")

-----------------------------------------------------------------------------
(* Names that match an ignore pattern *)

\* the names the classification of the source row of a harmonized row gives
\* to the matcher
ClassifiedNames(n) ==
    ClassifyNames(hapi.rows[n].location_code,
                  IF hapi.origin[n][1] = "ipc_global_level1_wide.csv" THEN 1 ELSE 2,
                  RowGet(HapiSource(n), "Level 1", Some("")),
                  RowGet(HapiSource(n), "Area", Some(""))).match_adm_names

\* a pattern occurs in a name, letter case aside
OccursIgnoringCase(x, name) ==
    /\ TruthyName(name)
    /\ Contains(LowerChars(Chars(Val(name))), LowerChars(x))

\* C25: for every harmonized row of a subnational source row, if a configured
\* ignore pattern occurs in one of the classified names, letter case of the
\* pattern and of the name aside, the row has no admin code and carries the
\* "Cannot match row" warning.
C25_IgnorePatternAnyCase ==
    \A n \in 1..Len(hapi.rows) :
        (/\ hapi.origin[n][1] # "ipc_global_national_wide.csv"
         /\ \E x \in adm_ignore_patterns :
                \/ OccursIgnoringCase(x, ClassifiedNames(n)[1])
                \/ OccursIgnoringCase(x, ClassifiedNames(n)[2])) =>
            /\ hapi.rows[n].admin1_code = ""
            /\ hapi.rows[n].admin2_code = ""
            /\ HasWarning(n, "Cannot match row")

-----------------------------------------------------------------------------
(* The header of a row set *)

\* every row of the set has the ordered key list of the first row
SameKeys(rows) == \A n \in 1..Len(rows) : Keys(rows[n]) = Keys(rows[1])

\* C26: in each of the twelve row sets of the global bundle, and of the
\* output a call returns, every row has the same ordered key list as the first
\* row of the set.
C26_RowsShareTheKeyList ==
    /\ \A k \in AllHistorySets \cup LatestSets : SameKeys(_output[k])
    /\ output # None =>
           \A k \in (AllHistorySets \cup LatestSets) \cap DOMAIN Val(output) :
               SameKeys(Val(output)[k])

\* an output whose area tables hold an area under a group and an area that
\* lies directly under its analysis
C26_Witness ==
    /\ output # None
    /\ \E n, m \in 1..Len(Val(output)["area_rows_wide"]) :
           /\ RowVal(Val(output)["area_rows_wide"][n], "Level 1") = None
           /\ RowVal(Val(output)["area_rows_wide"][m], "Level 1") # None
    /\ \E n, m \in 1..Len(Val(output)["area_rows"]) :
           /\ RowVal(Val(output)["area_rows"][n], "Level 1") = None
           /\ RowVal(Val(output)["area_rows"][m], "Level 1") # None
    /\ Len(_output.group_rows_wide) > 1

-----------------------------------------------------------------------------
(* The latest rows among the all-history rows *)

\* the rows of latest stand, in order and with equal content, in all
StandsIn(latest, all) ==
    \E offset \in 0..(Len(all) - Len(latest)) :
        \A n \in 1..Len(latest) : all[offset + n] = latest[n]

-----------------------------------------------------------------------------
(* The window entries of the state *)

\* the entry of the state under a key: <<>> when the state has none
StateEntry(st, key) == IF key \in DOMAIN st THEN <<st[key]>> ELSE <<>>

\* C28: whenever the state holds a START_DATE (END_DATE) entry it is the
\* start_date (end_date) of the global bundle, and a step changes the entry
\* exactly when it moves the start_date of the bundle earlier (its end_date
\* later).
C28_StateWindowIsBundleWindow ==
    /\ []( /\ "START_DATE" \in DOMAIN _state => _state["START_DATE"] = _output.start_date
           /\ "END_DATE" \in DOMAIN _state => _state["END_DATE"] = _output.end_date )
    /\ [][ /\ StateEntry(_state', "START_DATE") # StateEntry(_state, "START_DATE")
               <=> _output'.start_date < _output.start_date
           /\ StateEntry(_state', "END_DATE") # StateEntry(_state, "END_DATE")
               <=> _output'.end_date > _output.end_date ]_vars

\* a later run that moved the end of the window the state had kept and left
\* its start alone
C28_Witness ==
    /\ "START_DATE" \in DOMAIN _state
    /\ "END_DATE" \in DOMAIN _state
    /\ initial_window.start_date # default_enddate
    /\ visited # {}
    /\ _state["START_DATE"] = initial_window.start_date
    /\ _state["END_DATE"] > initial_window.end_date
    /\ _output.start_date = _state["START_DATE"]
    /\ _output.end_date = _state["END_DATE"]

-----------------------------------------------------------------------------
(* The end of main *)

C29_NothingToUpdate ==
    /\ main.pc = "done"
    /\ main.saved
    /\ ~main.country_data_updated
    /\ main.global = None
    /\ ~hapi.done

-----------------------------------------------------------------------------
(* A country without history *)

\* C30: a call for which the source returns an empty history returns None
\* and leaves the state (the watermark of the country, START_DATE and
\* END_DATE among its entries) and the global bundle (its twelve row sets,
\* start_date and end_date) as they were before the call.
C30_EmptyHistoryChangesNothing ==
    (last_call.iso3 # "" /\ Len(last_call.feed) = 0) =>
        /\ output = None
        /\ _state = last_call.state
        /\ \A k \in AllHistorySets \cup LatestSets \cup {"start_date", "end_date"} :
               _output[k] = last_call.bundle[k]

\* an empty history after a call of the same run that filled the bundle and
\* wrote the window to the state
C30_Witness ==
    /\ last_call.iso3 # ""
    /\ Len(last_call.feed) = 0
    /\ last_call.iso3 \notin DOMAIN _state
    /\ "START_DATE" \in DOMAIN _state
    /\ Len(_output.country_rows) > 0
    /\ Len(_output.area_rows_wide_latest) > 0
    /\ output = None

====
